---- MODULE Spec2Model ----
(***************************************************************************)
(* Model of src/src/app/api/chat/route.ts: the BrowseComp (eval mode)      *)
(* handler handleBrowseCompRequest, the interactive deep-research tool     *)
(* createDeepResearchTool.execute, and the pure helpers they use           *)
(* (ensureValidBrowseCompFormat, parseAnalysisResponse, filterUrls,        *)
(* getUrlsToProcess, searchWithRetry, extractWithRetry).                   *)
(*                                                                         *)
(* Strings are sequences of tokens.  A token is one label               *)
(* ("Explanation:", "exact answer:", ...), one whitespace character        *)
(* ("SP", "NL"), one digit, "%", or one piece of other text ("w", or a     *)
(* fixed phrase of the source such as "Unknown").                          *)
(***************************************************************************)
EXTENDS Integers, Sequences, FiniteSets, TLC

VARIABLES
    \* ---- formatter harness (ensureValidBrowseCompFormat as a function)
    fmtText,      \* candidate text handed to the Formatter
    fmtQuery,     \* the question handed to the Formatter
    fmtOnce,      \* format(text, q), or "none" before it ran
    fmtTwice,     \* format(format(text, q), q), or "none" before it ran
    fmtPc,        \* "start" | "once" | "twice"
    \* ---- parser harness (parseAnalysisResponse as a function)
    prsText,      \* the reasoning-LLM response text
    prsFindings,  \* findings.length
    prsTenths,    \* timeRemainingMinutes, in tenths of a minute
    prsOut,       \* the value returned, JUndef before the call
    prsPc,        \* "start" | "done"
    \* ---- ranker harness (the URL frequency map and getUrlsToProcess)
    selSeen,      \* the search responses recorded so far, oldest first
    selMap,       \* urlFrequencyMap after those responses
    selProcessed, \* processedUrls
    selOut,       \* what getUrlsToProcess returned
    selPc,        \* "record" | "done"
    \* ---- retry harness (searchWithRetry and extractWithRetry on their own)
    tryKind,      \* "none" | "search" | "extract"
    tryScript,    \* what the outside world answers to the successive calls
    tryI,         \* the loop variable i
    tryCalls,     \* calls of app.search or app.extract made so far
    tryScrapes,   \* calls of app.scrapeUrl made so far
    tryOut,       \* how the function ended and the value it returned
    tryPc,        \* "idle" | "call" | "scrape" | "done"
    \* ---- constraint harness (extractConstraintsWithLLM as a function)
    conReply,     \* what generateText answers: a text, or LlmThrows
    conQuestion,  \* the question
    conOut,       \* the constraints returned
    conPc         \* "idle" | "start" | "done"

fvars == <<fmtText, fmtQuery, fmtOnce, fmtTwice, fmtPc>>
pvars == <<prsText, prsFindings, prsTenths, prsOut, prsPc>>
svars == <<selSeen, selMap, selProcessed, selOut, selPc>>
tvars == <<tryKind, tryScript, tryI, tryCalls, tryScrapes, tryOut, tryPc>>
cvars == <<conReply, conQuestion, conOut, conPc>>

VARIABLES
    \* ---- one request to POST
    userAgent,     \* the User-Agent header
    messages,      \* the contents of body.messages, oldest first
    mode,          \* "none" before dispatch, then "eval" or "interactive"
    pc,            \* where the handler is suspended
    lastUserMessage, \* the question (eval) or the tool's topic (interactive)
    maxDepth,      \* in halves (see Halves): 6 in eval mode, the tool's
                   \* parameter in interactive mode
    researchState, \* the ResearchState record
    loc,           \* locals of the running hop
    response,      \* the HTTP response of eval mode, or NoResponse
    stream,        \* the events written to dataStream (interactive mode)
    toolResult,    \* what execute returned: "none", "success" or "failure"
    clock,         \* the time the run last read, 0 .. ClockLast
    budget,        \* what the outside world may still do: see Budget
    hist           \* history of the run (not program state)

hvars == <<userAgent, messages, mode, pc, lastUserMessage, maxDepth,
           researchState, loc, response, stream, toolResult, clock, budget, hist>>
toolvars == <<stream, toolResult>>

-----------------------------------------------------------------------------
(* Token classes                                                            *)

ExplLabels  == {"Explanation:", "explanation:"}
ExactLabels == {"Exact Answer:", "exact answer:"}
ConfLabels  == {"Confidence:", "confidence:"}
Digits      == {"0", "1", "2", "3", "4", "5", "6", "7", "8", "9"}
NonZero     == Digits \ {"0"}

\* \s of the regular expressions and the characters String.trim() removes
IsSpace(t) == t \in {"SP", "NL"}

\* x.toLowerCase().startsWith('explanation:') and its two siblings
StartsWithExpl(s)  == s # <<>> /\ s[1] \in ExplLabels
StartsWithExact(s) == s # <<>> /\ s[1] \in ExactLabels
StartsWithConf(s)  == s # <<>> /\ s[1] \in ConfLabels

-----------------------------------------------------------------------------
(* String helpers                                                           *)

RECURSIVE TrimLeft(_)
TrimLeft(s) ==
    IF s = <<>> THEN s
    ELSE IF IsSpace(Head(s)) THEN TrimLeft(Tail(s)) ELSE s

RECURSIVE TrimRight(_)
TrimRight(s) ==
    IF s = <<>> THEN s
    ELSE IF IsSpace(s[Len(s)]) THEN TrimRight(SubSeq(s, 1, Len(s) - 1)) ELSE s

\* String.prototype.trim
Trim(s) == TrimRight(TrimLeft(s))

\* String.prototype.split('\n'): the lines of s; "" splits into one empty line
RECURSIVE SplitLines(_, _, _)
SplitLines(s, cur, acc) ==
    IF s = <<>> THEN Append(acc, cur)
    ELSE IF Head(s) = "NL" THEN SplitLines(Tail(s), <<>>, Append(acc, cur))
    ELSE SplitLines(Tail(s), Append(cur, Head(s)), acc)

Lines(s) == SplitLines(s, <<>>, <<>>)

\* text.trim().split('\n').map(line => line.trim())
TrimmedLines(s) == [i \in DOMAIN Lines(Trim(s)) |-> Trim(Lines(Trim(s))[i])]

\* the first index >= from whose token is not whitespace, Len(s)+1 if none
RECURSIVE SkipSpace(_, _)
SkipSpace(s, from) ==
    IF from > Len(s) THEN Len(s) + 1
    ELSE IF IsSpace(s[from]) THEN SkipSpace(s, from + 1) ELSE from

\* the first index >= from whose token is in stop, Len(s)+1 if none:
\* where the lazy (.*?) stops under the lookahead (?=stop|$)
RECURSIVE FirstStop(_, _, _)
FirstStop(s, from, stop) ==
    IF from > Len(s) THEN Len(s) + 1
    ELSE IF s[from] \in stop THEN from ELSE FirstStop(s, from + 1, stop)

\* /^confidence:\s*(100|[1-9]?[0-9])%$/i.test(line)
ValidConfidenceLine(line) ==
    /\ StartsWithConf(line)
    /\ LET p == SkipSpace(line, 2)
           r == SubSeq(line, p, Len(line))
       IN  \/ r = <<"1", "0", "0", "%">>
           \/ Len(r) = 2 /\ r[1] \in Digits /\ r[2] = "%"
           \/ Len(r) = 3 /\ r[1] \in NonZero /\ r[2] \in Digits /\ r[3] = "%"

\* text.match(/label:\s*(.*?)(?=stop|$)/is)[1].trim(), "" when label is absent
SectionAfter(s, labels, stop) ==
    LET i == FirstStop(s, 1, labels)
    IN  IF i > Len(s) THEN <<>>
        ELSE LET p == SkipSpace(s, i + 1)
                 e == FirstStop(s, p, stop)
             IN  Trim(SubSeq(s, p, e - 1))

\* whether /confidence:\s*(\d{1,3}%)/i matches at the label at index i
ConfidenceAt(s, i) ==
    /\ i \in 1..Len(s)
    /\ s[i] \in ConfLabels
    /\ LET p == SkipSpace(s, i + 1)
       IN  \E k \in 1..3 :
               /\ p + k <= Len(s)
               /\ \A j \in p..(p + k - 1) : s[j] \in Digits
               /\ s[p + k] = "%"

\* text.match(/confidence:\s*(\d{1,3}%)/i)[1], "" when there is no match
ConfidenceMatch(s) ==
    IF \E i \in 1..Len(s) : ConfidenceAt(s, i)
    THEN LET i == CHOOSE i \in 1..Len(s) :
                      ConfidenceAt(s, i) /\ \A j \in 1..(i - 1) : ~ConfidenceAt(s, j)
             p == SkipSpace(s, i + 1)
             e == FirstStop(s, p, {"%"})
         IN  SubSeq(s, p, e)
    ELSE <<>>

-----------------------------------------------------------------------------
(* ensureValidBrowseCompFormat                                              *)

\* the template literal of lines 83-85 and 125-127
EmptyInputFallback(query) ==
    <<"Explanation:", "SP", "NoAnswerTo", "QUOTE">> \o query \o
    <<"QUOTE", "DOT", "NL", "Exact Answer:", "SP", "Unknown", "NL",
      "Confidence:", "SP", "1", "0", "%">>

\* the condition of lines 89-92
AlreadyValid(text) ==
    LET lines == TrimmedLines(text)
    IN  /\ Len(lines) = 3
        /\ StartsWithExpl(lines[1])
        /\ StartsWithExact(lines[2])
        /\ ValidConfidenceLine(lines[3])

\* lines 107-122: defaults, label prefixes, join with newlines
Salvaged(explanation, exactAnswer, confidence) ==
    LET e == IF explanation = <<>> THEN <<"NoAnswer">> ELSE explanation
        a == IF exactAnswer = <<>> THEN <<"Unknown">> ELSE exactAnswer
        c == IF confidence = <<>> THEN <<"3", "0", "%">> ELSE confidence
        le == IF StartsWithExpl(e) THEN e ELSE <<"Explanation:", "SP">> \o e
        la == IF StartsWithExact(a) THEN a ELSE <<"Exact Answer:", "SP">> \o a
        lc == IF StartsWithConf(c) THEN c ELSE <<"Confidence:", "SP">> \o c
    IN  le \o <<"NL">> \o la \o <<"NL">> \o lc

ensureValidBrowseCompFormat(text, query) ==
    IF text = <<>> THEN EmptyInputFallback(query)
    ELSE IF AlreadyValid(text) THEN Trim(text)
    ELSE LET explanation == SectionAfter(text, ExplLabels, ExactLabels \cup ConfLabels)
             exactAnswer == SectionAfter(text, ExactLabels, ExplLabels \cup ConfLabels)
             confidence  == ConfidenceMatch(text)
         IN  IF explanation # <<>> \/ exactAnswer # <<>> \/ confidence # <<>>
             THEN Salvaged(explanation, exactAnswer, confidence)
             ELSE EmptyInputFallback(query)

-----------------------------------------------------------------------------
(* JavaScript values as JSON.parse yields them.  An object is the sequence  *)
(* of its members <<key, value>> in text order; a string is a token        *)
(* sequence.                                                                *)

JUndef  == [t |-> "undefined", v |-> 0]
JNull   == [t |-> "null", v |-> 0]
JBool(b) == [t |-> "bool", v |-> b]
JNum(n)  == [t |-> "num", v |-> n]
JStr(s)  == [t |-> "str", v |-> s]
JArr(a)  == [t |-> "arr", v |-> a]
JObj(m)  == [t |-> "obj", v |-> m]

\* ToBoolean
Truthy(x) ==
    CASE x.t = "undefined" -> FALSE
      [] x.t = "null" -> FALSE
      [] x.t = "bool" -> x.v
      [] x.t = "num"  -> x.v # 0
      [] x.t = "str"  -> x.v # <<>>
      [] OTHER -> TRUE

\* x.key throws a TypeError exactly when x is null or undefined
CanRead(x) == x.t \notin {"undefined", "null"}

HasKey(x, key) == x.t = "obj" /\ \E i \in DOMAIN x.v : x.v[i][1] = key

\* x.key for a value that can be read: the last member of that name wins
Get(x, key) ==
    IF HasKey(x, key)
    THEN LET i == CHOOSE i \in DOMAIN x.v :
                      x.v[i][1] = key /\ \A j \in DOMAIN x.v : j > i => x.v[j][1] # key
         IN  x.v[i][2]
    ELSE IF key = "length" /\ x.t \in {"arr", "str"} THEN JNum(Len(x.v))
    ELSE JUndef

\* x with member key set to val (assignment to an existing or a new member)
RECURSIVE SetKey(_, _, _)
SetKey(m, key, val) ==
    IF m = <<>> THEN << <<key, val>> >>
    ELSE IF Head(m)[1] = key THEN << <<key, val>> >> \o Tail(m)
    ELSE <<Head(m)>> \o SetKey(Tail(m), key, val)

RECURSIVE SelectSeqStr(_)
\* arr.filter(q => typeof q === 'string')
SelectSeqStr(a) ==
    IF a = <<>> THEN <<>>
    ELSE IF Head(a).t = "str" THEN <<Head(a)>> \o SelectSeqStr(Tail(a))
    ELSE SelectSeqStr(Tail(a))

-----------------------------------------------------------------------------
(* A reasoning-LLM response text is a sequence of segments:                 *)
(*   [k |-> "json",  v |-> value]   the serialisation of a JSON value      *)
(*   [k |-> "fence", v |-> segment] a ``` fenced block holding a segment   *)
(*   [k |-> "junk",  v |-> 0]       {...} text that is not valid JSON      *)
(*   [k |-> "prose", v |-> words]   other text, a sequence of word tokens  *)

SegJson(x)   == [k |-> "json", v |-> x]
SegFence(g)  == [k |-> "fence", v |-> g]
SegJunk      == [k |-> "junk", v |-> 0]
SegProse(ws) == [k |-> "prose", v |-> ws]

\* generateText rejects instead of returning a text
LlmThrows == << [k |-> "throws", v |-> 0] >>

\* JSON.parse(text): the whole text must be one JSON value
DirectParses(text) == Len(text) = 1 /\ text[1].k = "json"
DirectParse(text) == text[1].v

\* object nesting depth of a serialised value (braces inside braces)
RECURSIVE BraceDepth(_)
RECURSIVE BraceDepthSeq(_)
BraceDepth(x) ==
    CASE x.t = "obj" -> 1 + BraceDepthSeq([i \in DOMAIN x.v |-> x.v[i][2]])
      [] x.t = "arr" -> BraceDepthSeq(x.v)
      [] OTHER -> 0
BraceDepthSeq(xs) ==
    IF xs = <<>> THEN 0
    ELSE LET a == BraceDepth(Head(xs))
             b == BraceDepthSeq(Tail(xs))
         IN  IF a >= b THEN a ELSE b

\* the substrings /{[^{}]*(?:{[^{}]*}[^{}]*)*}/g finds in a serialised value:
\* the outermost objects whose braces nest at most two deep, in text order
RECURSIVE BraceMatches(_)
RECURSIVE BraceMatchesSeq(_)
BraceMatches(x) ==
    CASE x.t = "obj" ->
             IF BraceDepth(x) <= 2 THEN <<x>>
             ELSE BraceMatchesSeq([i \in DOMAIN x.v |-> x.v[i][2]])
      [] x.t = "arr" -> BraceMatchesSeq(x.v)
      [] OTHER -> <<>>
BraceMatchesSeq(xs) ==
    IF xs = <<>> THEN <<>>
    ELSE BraceMatches(Head(xs)) \o BraceMatchesSeq(Tail(xs))

\* candidates of method 3 over the whole text; junk is a candidate that
\* JSON.parse rejects
RECURSIVE SegCandidates(_)
SegCandidates(g) ==
    CASE g.k = "json"  -> [i \in DOMAIN BraceMatches(g.v) |->
                               [ok |-> TRUE, v |-> BraceMatches(g.v)[i]]]
      [] g.k = "fence" -> SegCandidates(g.v)
      [] g.k = "junk"  -> << [ok |-> FALSE, v |-> JUndef] >>
      [] OTHER -> <<>>

RECURSIVE TextCandidates(_)
TextCandidates(text) ==
    IF text = <<>> THEN <<>>
    ELSE SegCandidates(Head(text)) \o TextCandidates(Tail(text))

\* candidates of method 2: the bodies of the fenced blocks that open with {
RECURSIVE FenceCandidates(_)
FenceCandidates(text) ==
    IF text = <<>> THEN <<>>
    ELSE LET g == Head(text)
             here == IF g.k = "fence" /\ g.v.k = "json" /\ g.v.v.t = "obj"
                     THEN << [ok |-> TRUE, v |-> g.v.v] >>
                     ELSE IF g.k = "fence" /\ g.v.k = "junk"
                     THEN << [ok |-> FALSE, v |-> JUndef] >>
                     ELSE <<>>
         IN  here \o FenceCandidates(Tail(text))

\* words of the raw text, for String.includes on the lower-cased text.  A
\* member name or string token counts as the words it contains.
WordsIn(token) ==
    CASE token = "hasAnswer" -> {"answer"}
      [] token = "shouldContinue" -> {"continue"}
      [] token = "subAnswer" -> {"answer"}
      [] OTHER -> {token}

RECURSIVE ValueWords(_)
RECURSIVE ValueWordsSeq(_)
ValueWords(x) ==
    CASE x.t = "obj" ->
             UNION {WordsIn(x.v[i][1]) : i \in DOMAIN x.v}
                 \cup ValueWordsSeq([i \in DOMAIN x.v |-> x.v[i][2]])
      [] x.t = "arr" -> ValueWordsSeq(x.v)
      [] x.t = "str" -> UNION {WordsIn(x.v[i]) : i \in DOMAIN x.v}
      [] x.t = "null" -> {"null"}
      [] OTHER -> {}
ValueWordsSeq(xs) ==
    IF xs = <<>> THEN {} ELSE ValueWords(Head(xs)) \cup ValueWordsSeq(Tail(xs))

RECURSIVE SegWords(_)
SegWords(g) ==
    CASE g.k = "json"  -> ValueWords(g.v)
      [] g.k = "fence" -> SegWords(g.v)
      [] g.k = "prose" -> UNION {WordsIn(g.v[i]) : i \in DOMAIN g.v}
      [] OTHER -> {}

TextWords(text) == UNION {SegWords(text[i]) : i \in DOMAIN text}

-----------------------------------------------------------------------------
(* Question vocabulary.  Besides the tokens of the Formatter a question    *)
(* holds words: capitalised words, lower-case words longer than four       *)
(* letters, short lower-case words and four-digit years.                    *)

CapWords   == {"Who", "Marie", "Curie"}
LongWords  == {"discovered", "radium", "marie", "curie"}
ShortWords == {"w", "who", "in"}
YearTokens == {"1903", "1964"}
\* labels written with capitals: [A-Z][a-z]+ matches their first word
CapLabels  == {"Explanation:", "Exact Answer:", "Confidence:"}
AllLabels  == ExplLabels \cup ExactLabels \cup ConfLabels

\* number of characters of a token
TokenLength(tok) ==
    CASE tok \in {"Who", "who"} -> 3
      [] tok \in {"Marie", "Curie", "marie", "curie"} -> 5
      [] tok = "discovered" -> 10
      [] tok = "radium" -> 6
      [] tok = "in" -> 2
      [] tok \in YearTokens -> 4
      [] tok \in ExplLabels -> 12
      [] tok \in ExactLabels -> 13
      [] tok \in ConfLabels -> 11
      [] OTHER -> 1

RECURSIVE PhraseLength(_)
PhraseLength(ph) ==
    IF ph = <<>> THEN 0 ELSE TokenLength(Head(ph)) + PhraseLength(Tail(ph))

\* entries.join(' ')
RECURSIVE JoinSpace(_)
JoinSpace(phs) ==
    IF phs = <<>> THEN <<>>
    ELSE IF Len(phs) = 1 THEN phs[1]
    ELSE phs[1] \o <<"SP">> \o JoinSpace(Tail(phs))

\* arr.slice(0, n)
Take(xs, n) == SubSeq(xs, 1, IF Len(xs) < n THEN Len(xs) ELSE n)

\* end of the match of /\b[A-Z][a-z]+(?:\s+[A-Z][a-z]+){0,2}\b/ that starts at
\* the capitalised token i: up to two more capitalised words, each after
\* whitespace; a label ends the run (its colon is no whitespace)
RECURSIVE CapRunEnd(_, _, _)
CapRunEnd(s, i, more) ==
    LET k == SkipSpace(s, i + 1)
    IN  IF more > 0 /\ s[i] \notin CapLabels /\ k > i + 1 /\ k <= Len(s)
           /\ s[k] \in CapWords \cup CapLabels
        THEN CapRunEnd(s, k, more - 1)
        ELSE i

\* question.match(/\b[A-Z][a-z]+(?:\s+[A-Z][a-z]+){0,2}\b/g)
RECURSIVE CapRuns(_, _)
CapRuns(s, i) ==
    IF i > Len(s) THEN <<>>
    ELSE IF s[i] \in CapWords \cup CapLabels
    THEN LET e == CapRunEnd(s, i, 2)
         IN  <<SubSeq(s, i, e)>> \o CapRuns(s, e + 1)
    ELSE CapRuns(s, i + 1)

\* question.match(/"([^"]+)"/g) with the quotes removed
RECURSIVE QuotedPhrases(_, _)
QuotedPhrases(s, i) ==
    IF i > Len(s) THEN <<>>
    ELSE IF s[i] = "QUOTE"
    THEN LET e == FirstStop(s, i + 1, {"QUOTE"})
         IN  IF e <= Len(s) /\ e > i + 1
             THEN <<SubSeq(s, i + 1, e - 1)>> \o QuotedPhrases(s, e + 1)
             ELSE QuotedPhrases(s, i + 1)
    ELSE QuotedPhrases(s, i + 1)

RECURSIVE TokensIn(_, _, _)
\* the one-token matches of a class, in text order
TokensIn(s, i, class) ==
    IF i > Len(s) THEN <<>>
    ELSE IF s[i] \in class THEN << <<s[i]>> >> \o TokensIn(s, i + 1, class)
    ELSE TokensIn(s, i + 1, class)

\* question.match(/\b\d+\.?\d*%/g): a number directly followed by %
RECURSIVE Percentages(_, _)
Percentages(s, i) ==
    IF i >= Len(s) THEN <<>>
    ELSE IF s[i] \in Digits \cup YearTokens /\ s[i + 1] = "%"
    THEN <<SubSeq(s, i, i + 1)>> \o Percentages(s, i + 2)
    ELSE Percentages(s, i + 1)

IsWordToken(tok) ==
    tok \in CapWords \cup LongWords \cup ShortWords \cup YearTokens \cup Digits
             \cup AllLabels

\* question.match(/\b\d+\s+\w+/gi): a number, whitespace, a word
RECURSIVE NumbersWithContext(_, _)
NumbersWithContext(s, i) ==
    IF i > Len(s) THEN <<>>
    ELSE LET k == SkipSpace(s, i + 1)
         IN  IF s[i] \in Digits \cup YearTokens /\ k > i + 1 /\ k <= Len(s)
                /\ IsWordToken(s[k])
             THEN <<SubSeq(s, i, k)>> \o NumbersWithContext(s, k + 1)
             ELSE NumbersWithContext(s, i + 1)

HasFormatWord(ph) == \E i \in DOMAIN ph : ph[i] \in AllLabels

RECURSIVE DropFormat(_)
DropFormat(phs) ==
    IF phs = <<>> THEN <<>>
    ELSE IF HasFormatWord(Head(phs)) THEN DropFormat(Tail(phs))
    ELSE <<Head(phs)>> \o DropFormat(Tail(phs))

\* String.toLowerCase on a word
Lower(tok) ==
    CASE tok = "Who" -> "who"
      [] tok = "Marie" -> "marie"
      [] tok = "Curie" -> "curie"
      [] OTHER -> tok

\* question.toLowerCase().replace(/[^\w\s]/g, ' ').split(/\s+/) filtered to the
\* words longer than four letters that hold no format word
RECURSIVE MeaningfulWords(_, _)
MeaningfulWords(s, i) ==
    IF i > Len(s) THEN <<>>
    ELSE IF s[i] \in CapWords \cup LongWords /\ TokenLength(s[i]) > 4
    THEN << <<Lower(s[i])>> >> \o MeaningfulWords(s, i + 1)
    ELSE MeaningfulWords(s, i + 1)

generateFallbackQuery(question) ==
    LET entities == QuotedPhrases(question, 1)
                    \o DropFormat(CapRuns(question, 1))
                    \o TokensIn(question, 1, YearTokens)
                    \o Percentages(question, 1)
                    \o Take(NumbersWithContext(question, 1), 2)
        words == Take(MeaningfulWords(question, 1), 4)
    IN  IF entities # <<>> THEN JoinSpace(Take(entities, 5))
        ELSE IF words # <<>> THEN JoinSpace(words)
        ELSE <<"search", "SP", "query">>

\* the stopwords a capitalised phrase can equal once lower-cased
StopPhrases == { <<"Who">>, <<"Explanation:">>, <<"Confidence:">> }

RECURSIVE DropStopPhrases(_)
DropStopPhrases(phs) ==
    IF phs = <<>> THEN <<>>
    ELSE IF Head(phs) \in StopPhrases \/ PhraseLength(Head(phs)) <= 2
    THEN DropStopPhrases(Tail(phs))
    ELSE <<Head(phs)>> \o DropStopPhrases(Tail(phs))

RECURSIVE LongerThan(_, _)
LongerThan(phs, n) ==
    IF phs = <<>> THEN <<>>
    ELSE IF PhraseLength(Head(phs)) > n THEN <<Head(phs)>> \o LongerThan(Tail(phs), n)
    ELSE LongerThan(Tail(phs), n)

\* insertion into a Set: first occurrences, in order
RECURSIVE Dedupe(_, _)
Dedupe(phs, seen) ==
    IF phs = <<>> THEN <<>>
    ELSE IF Head(phs) \in seen THEN Dedupe(Tail(phs), seen)
    ELSE <<Head(phs)>> \o Dedupe(Tail(phs), seen \cup {Head(phs)})

\* Array.prototype.sort((a, b) => b.length - a.length), which is stable
RECURSIVE InsertByLength(_, _)
InsertByLength(sorted, ph) ==
    IF sorted = <<>> THEN <<ph>>
    ELSE IF PhraseLength(Head(sorted)) >= PhraseLength(ph)
    THEN <<Head(sorted)>> \o InsertByLength(Tail(sorted), ph)
    ELSE <<ph>> \o sorted

RECURSIVE SortByLengthDesc(_, _)
SortByLengthDesc(phs, acc) ==
    IF phs = <<>> THEN acc
    ELSE SortByLengthDesc(Tail(phs), InsertByLength(acc, Head(phs)))

extractKeyTerms(question) ==
    LET keywords == Dedupe(
                LongerThan(QuotedPhrases(question, 1), 2)
                \o DropStopPhrases(CapRuns(question, 1))
                \o TokensIn(question, 1, {"1964"})
                \o Percentages(question, 1)
                \o Take(MeaningfulWords(question, 1), 8), {})
    IN  JoinSpace(Take(SortByLengthDesc(keywords, <<>>), 8))

-----------------------------------------------------------------------------
(* parseAnalysisResponse and the two fallback records.  Minutes are counted *)
(* in tenths (timeRemainingMinutes is rounded to one decimal).              *)

\* raw text as tokens, for text.substring(0, 200)
RECURSIVE RawTokens(_)
RawTokens(text) ==
    IF text = <<>> THEN <<>>
    ELSE LET g == Head(text)
             here == CASE g.k = "prose" -> g.v
                       [] g.k = "json"  -> <<"[json]">>
                       [] g.k = "fence" -> <<"[fence]">>
                       [] OTHER -> <<"[junk]">>
         IN  here \o RawTokens(Tail(text))

parseAnalysisFromText(text, nFindings, tenths, question) ==
    LET words == TextWords(text)
        shouldContinue == \/ nFindings < 3
                          \/ tenths > 15
                          \/ words \cap {"continue", "more search", "insufficient"} # {}
        confidence == IF words \cap {"high confidence", "confident"} # {} THEN "high"
                      ELSE IF words \cap {"medium", "moderate"} # {} THEN "medium"
                      ELSE "low"
        hasAnswer == \/ words \cap {"found", "answer", "identified"} # {}
                     \/ confidence = "high"
    IN  JObj(<< <<"summary", JStr(Take(RawTokens(text), 200))>>,
                <<"hasAnswer", JBool(hasAnswer)>>,
                <<"confidence", JStr(<<confidence>>)>>,
                <<"gaps", JArr(<<JStr(<<"More information needed">>)>>)>>,
                <<"shouldContinue", JBool(shouldContinue)>>,
                <<"nextSearchTopic", JStr(generateFallbackQuery(question))>> >>)

createFallbackAnalysis(nFindings, tenths, question) ==
    JObj(<< <<"summary", JStr(<<"Analysis function encountered an error">>)>>,
            <<"hasAnswer", JBool(FALSE)>>,
            <<"confidence", JStr(<<"low">>)>>,
            <<"gaps", JArr(<<JStr(<<"Analysis system error">>)>>)>>,
            <<"shouldContinue", JBool(nFindings < 5 /\ tenths > 10)>>,
            <<"nextSearchTopic", JStr(generateFallbackQuery(question))>> >>)

\* the first candidate the loop of method 2 or 3 returns: a parsed object
\* with a truthy analysis (its value), or with one of the keys defined
RECURSIVE FirstAccepted(_, _)
FirstAccepted(cands, keys) ==
    IF cands = <<>> THEN [found |-> FALSE, v |-> JUndef]
    ELSE LET c == Head(cands)
         IN  IF c.ok /\ Truthy(Get(c.v, "analysis"))
             THEN [found |-> TRUE, v |-> Get(c.v, "analysis")]
             ELSE IF c.ok /\ \E key \in keys : Get(c.v, key) # JUndef
             THEN [found |-> TRUE, v |-> c.v]
             ELSE FirstAccepted(Tail(cands), keys)

\* method 1 (lines 132-146): the value returned, when the try block returns
\* a faulty variant: method 1 returning the parsed value as it is
DirectResultAsParsed(parsed) == parsed

DirectResult(parsed) ==
    IF Truthy(Get(parsed, "analysis")) THEN Get(parsed, "analysis")
    ELSE IF Get(parsed, "summary") # JUndef THEN parsed
    ELSE IF Truthy(Get(parsed, "subquestions")) /\ Get(parsed, "subquestions").t = "arr"
    THEN JObj(SetKey(parsed.v, "subquestions",
                     JArr(SelectSeqStr(Get(parsed, "subquestions").v))))
    ELSE parsed

\* whether method 1 returns: JSON.parse succeeds and reading parsed.analysis
\* does not throw
DirectReturns(text) == DirectParses(text) /\ CanRead(DirectParse(text))

parseAnalysisResponse(text, nFindings, tenths, question) ==
    IF DirectReturns(text) THEN DirectResult(DirectParse(text))
    ELSE LET fenced == FirstAccepted(FenceCandidates(text), {"summary"})
             braced == FirstAccepted(TextCandidates(text), {"summary", "shouldContinue"})
         IN  IF fenced.found THEN fenced.v
             ELSE IF braced.found THEN braced.v
             ELSE parseAnalysisFromText(text, nFindings, tenths, question)

\* whether the result of analyzeAndPlan depends on timeRemainingMinutes
UsesClock(llm) ==
    llm = LlmThrows \/ (~DirectReturns(llm) /\ ~FirstAccepted(FenceCandidates(llm), {"summary"}).found
                                            /\ ~FirstAccepted(TextCandidates(llm), {"summary", "shouldContinue"}).found)

\* analyzeAndPlan (lines 383-451): llm is LlmThrows or the response text
analyzeAndPlan(llm, nFindings, tenths, question) ==
    IF llm = LlmThrows THEN createFallbackAnalysis(nFindings, tenths, question)
    ELSE parseAnalysisResponse(llm, nFindings, tenths, question)

-----------------------------------------------------------------------------
(* URLs, filterUrls and the URL frequency ranker                            *)

UrlA        == "https://a.org/p"
UrlB        == "https://b.org/p"
UrlC        == "https://c.org/p"
UrlD        == "https://d.org/p"
UrlReddit   == "https://www.reddit.com/r/p"
UrlYoutube  == "https://www.youtube.com/p"
UrlPdf      == "https://a.org/f.PDF"
UrlBad      == "not a url"
UrlFacebook == "https://m.facebook.com/p"
UrlNetflix  == "https://www.netflix.com/p"
UrlTiktok   == "https://www.tiktok.com/p"

FilteredUrls ==
    {UrlReddit, UrlYoutube, UrlPdf, UrlBad, UrlFacebook, UrlNetflix, UrlTiktok}
Urls == {UrlA, UrlB, UrlC, UrlD} \cup FilteredUrls

\* new URL(url) throws for a string that is no URL
UrlParses(url) == url \in Urls \ {UrlBad}

\* new URL(url).hostname
Hostname(url) ==
    CASE url \in {UrlA, UrlPdf} -> "a.org"
      [] url = UrlB -> "b.org"
      [] url = UrlC -> "c.org"
      [] url = UrlD -> "d.org"
      [] url = UrlReddit -> "www.reddit.com"
      [] url = UrlYoutube -> "www.youtube.com"
      [] url = UrlFacebook -> "m.facebook.com"
      [] url = UrlNetflix -> "www.netflix.com"
      [] url = UrlTiktok -> "www.tiktok.com"
      [] OTHER -> ""

blockedDomains ==
    {"reddit.com", "brainly.com", "youtube.com", "youtu.be", "facebook.com",
     "twitter.com", "x.com", "tiktok.com", "instagram.com"}

\* domain.includes(blocked): blocked is a substring of the host name
HostIncludes(host, blocked) ==
    \/ host = "www.reddit.com" /\ blocked = "reddit.com"
    \/ host = "www.youtube.com" /\ blocked = "youtube.com"
    \/ host = "m.facebook.com" /\ blocked = "facebook.com"
    \/ host = "www.netflix.com" /\ blocked = "x.com"
    \/ host = "www.tiktok.com" /\ blocked = "tiktok.com"

\* url.match(/\.(pdf|doc|docx)$/i)
IsDocument(url) == url = UrlPdf

KeepUrl(url) ==
    /\ UrlParses(url)
    /\ ~IsDocument(url)
    /\ ~\E blocked \in blockedDomains : HostIncludes(Hostname(url), blocked)

filterUrls(urls) == SelectSeq(urls, KeepUrl)

\* lines 813-825 for one result: bump the entry of url or create it
BumpFrequency(map, url) ==
    IF \E k \in DOMAIN map : map[k].url = url
    THEN [k \in DOMAIN map |->
             IF map[k].url = url
             THEN [map[k] EXCEPT !.frequency = @ + 1] ELSE map[k]]
    ELSE Append(map, [url |-> url, frequency |-> 1])

\* searchResult.data.forEach(...) of lines 813-825
RECURSIVE RecordResponse(_, _)
RecordResponse(map, data) ==
    IF data = <<>> THEN map
    ELSE RecordResponse(BumpFrequency(map, Head(data)), Tail(data))

\* a faulty variant: the entries left in insertion order
KeepInsertionOrder(map) == map

\* Array.from(map.values()).sort((a, b) => b.frequency - a.frequency): the
\* sort is stable, so an entry comes before another when its frequency is
\* higher, or equal and it was inserted first
SortByFrequencyDesc(map) ==
    LET Before(j, k) == \/ map[j].frequency > map[k].frequency
                        \/ map[j].frequency = map[k].frequency /\ j < k
        Place(k) == Cardinality({j \in DOMAIN map : Before(j, k)}) + 1
    IN  [p \in DOMAIN map |-> map[CHOOSE k \in DOMAIN map : Place(k) = p]]

UrlsOf(map) == [k \in DOMAIN map |-> map[k].url]

\* a faulty variant: the selection without the filter on processedUrls
getUrlsIgnoringProcessed(urlFrequencyMap, processedUrls) ==
    Take(UrlsOf(SortByFrequencyDesc(urlFrequencyMap)), 3)

getUrlsToProcess(urlFrequencyMap, processedUrls) ==
    LET sortedUrls == SelectSeq(UrlsOf(SortByFrequencyDesc(urlFrequencyMap)),
                                LAMBDA url : url \notin processedUrls)
    IN  Take(sortedUrls, 3)

-----------------------------------------------------------------------------
(* isGeneric                                                                *)

Interrogatives == {"who", "Who"}

RECURSIVE CountToken(_, _)
CountToken(s, tok) ==
    IF s = <<>> THEN 0
    ELSE (IF Head(s) = tok THEN 1 ELSE 0) + CountToken(Tail(s), tok)

\* isGeneric(query) for a string query
IsGenericString(query) ==
    \/ Len(Trim(query)) = 1 /\ Trim(query)[1] \in Interrogatives
    \/ CountToken(query, "SP") + 1 < 3
    \/ query # <<>> /\ \A k \in DOMAIN query : query[k] \in Digits \cup YearTokens

\* query.trim is not a function: isGeneric throws for a value that is no string
IsGenericThrows(x) == x.t # "str"

-----------------------------------------------------------------------------
(* Program constants                                                        *)

SearchRetries       == 3
ExtractRetries      == 2
SearchQueriesPerHop == 5
EvalMaxDepth        == 6
MaxFailedAttempts   == 3

-----------------------------------------------------------------------------
(* The request and the state of a run                                       *)

NoResponse == [status |-> 0, content |-> <<>>]
Ok200(content) == [status |-> 200, content |-> content]

LocIdle ==
    [topic |-> JStr(<<>>), searchTopic |-> JStr(<<>>), q |-> 0, i |-> 0,
     topUrls |-> <<>>, urls |-> <<>>, u |-> 0, e |-> 0, results |-> <<>>,
     pending |-> {}, parts |-> <<>>]

\* lines 611-623
EvalResearchState ==
    [findings |-> <<>>, summaries |-> <<>>, nextSearchTopic |-> JStr(<<>>),
     urlToSearch |-> JStr(<<>>), currentDepth |-> 0, failedAttempts |-> 0,
     maxFailedAttempts |-> MaxFailedAttempts, processedUrls |-> {},
     subquestions |-> <<>>, answeredSubquestions |-> <<>>, subAnswers |-> <<>>,
     completedSteps |-> 0, totalExpectedSteps |-> 0, urlFrequencyMap |-> <<>>]

HistIdle ==
    [seenIn |-> [url \in Urls |-> 0], occurrences |-> [url \in Urls |-> 0],
     handed |-> <<>>, nonEmpty |-> 0, items |-> 0,
     loopThrew |-> FALSE, synthReached |-> FALSE, analysis |-> JUndef,
     timeUp |-> FALSE, exhausted |-> FALSE, watching |-> FALSE,
     dequeued |-> {}, overtook |-> FALSE, formatted |-> <<>>]

\* the history once the step after an analysis is taken: the analysis of the
\* hop that just ended is kept for that one step only
Forget(h) == [h EXCEPT !.analysis = JUndef]

QuestionPlain == <<"Marie", "SP", "Curie", "SP", "discovered", "SP", "radium">>
Questions == {QuestionPlain}

\* body.messages as the sequence of the messages' contents
RequestMessages == { <<>>, << <<>> >> } \cup { <<question>> : question \in Questions }
UserAgents == {"python-requests/2.31", "Mozilla/5.0"}

\* userAgent.includes("python-requests")
IsSimpleEval(agent) == agent = "python-requests/2.31"

\* the clock, as far as the run has read it: the minutes remaining (in
\* tenths) at the last analysis whose result depended on them are 20, then
\* 12, then 5
TimeReadings == <<20, 12, 5>>
ClockLast == Len(TimeReadings) - 1
TenthsLeft(c) == TimeReadings[c + 1]
LaterClocks(c) == c .. ClockLast

\* the outside world gives at most MaxSearchHits non-empty search responses,
\* and the reasoning LLM at most MaxOddReplies replies to the subquestion,
\* analysis and synthesis prompts other than the well-formed ones
MaxSearchHits == 2
MaxOddReplies == 1
\* the maxDepth parameter of the tool (z.number().optional(), line 1036): any
\* number the chat model passes, here the integers from -1 to MaxToolDepth
\* and MaxToolDepth - 0.5, in halves
MaxToolDepth == 2
ToolDepths == {2 * d : d \in (0 - 1) .. MaxToolDepth} \cup {2 * MaxToolDepth - 1}
Budget == [hits |-> MaxSearchHits, odd |-> MaxOddReplies]

reqvars == <<userAgent, messages, mode, lastUserMessage, maxDepth>>

FmtIdle == fmtText = <<>> /\ fmtQuery = <<>> /\ fmtOnce = "none"
           /\ fmtTwice = "none" /\ fmtPc = "idle"
SelIdle == selSeen = <<>> /\ selMap = <<>> /\ selProcessed = {}
           /\ selOut = <<>> /\ selPc = "idle"
NotRunning == [kind |-> "none", value |-> <<>>]
TryIdle == tryKind = "none" /\ tryScript = <<>> /\ tryI = 0 /\ tryCalls = 0
           /\ tryScrapes = 0 /\ tryOut = NotRunning /\ tryPc = "idle"
ConIdle == conReply = <<>> /\ conQuestion = <<>> /\ conOut = <<>> /\ conPc = "idle"
PrsIdle == prsText = <<>> /\ prsFindings = 0 /\ prsTenths = 0
           /\ prsOut = JUndef /\ prsPc = "idle"
HandlerIdle ==
    /\ userAgent = "" /\ messages = <<>> /\ mode = "none" /\ pc = "idle"
    /\ lastUserMessage = <<>> /\ maxDepth = 0 /\ researchState = EvalResearchState
    /\ loc = LocIdle /\ response = NoResponse /\ stream = <<>> /\ toolResult = "none" /\ clock = 0
    /\ budget = Budget /\ hist = HistIdle

\* a request arrives at POST
Arrival ==
    /\ FmtIdle /\ PrsIdle /\ SelIdle /\ TryIdle /\ ConIdle
    /\ userAgent \in UserAgents
    /\ messages \in RequestMessages
    /\ mode = "none"
    /\ pc = "request"
    /\ lastUserMessage = <<>>
    /\ maxDepth = 0
    /\ researchState = EvalResearchState
    /\ loc = LocIdle
    /\ response = NoResponse
    /\ stream = <<>>
    /\ toolResult = "none"
    /\ clock = 0
    /\ budget = Budget

Init == Arrival /\ hist = HistIdle

\* the same requests, with the history of search failures kept
InitWatch == Arrival /\ hist = [HistIdle EXCEPT !.watching = TRUE]

-----------------------------------------------------------------------------
(* What the outside world answers                                           *)

\* app.search: the urls of result.data of a successful response, in order
SearchData ==
    { <<>>,
      <<UrlReddit, UrlYoutube, UrlFacebook>>,
      <<UrlA, UrlB, UrlC, UrlReddit, UrlYoutube, UrlB, UrlPdf, UrlBad,
        UrlFacebook, UrlNetflix, UrlTiktok>> }

\* one call of app.search: success with data, success: false, or an exception
SearchOutcomes ==
    { [kind |-> "ok", data |-> data] : data \in SearchData }
    \cup { [kind |-> "fail", data |-> <<>>], [kind |-> "throws", data |-> <<>>] }

\* one call of app.extract raced against the 35 s timer: success with an
\* array payload of 0 or 2 items, success with a string or object payload,
\* success: false, or an exception (the timeout included).  What a page
\* yields when the call succeeds depends on the page; any call may throw.
PageYields(url) ==
    CASE url = UrlA -> {"array2"}
      [] url = UrlB -> {"payload"}
      [] OTHER -> {"fail", "array0"}
ExtractOutcomes(url) == PageYields(url) \cup {"throws"}

\* one call of app.scrapeUrl: success with markdown, anything else, exception
ScrapeOutcomes == {"markdown", "fail", "throws"}

SubQ1  == <<"Marie", "SP", "Curie", "SP", "radium">>
SubQ2  == <<"Curie", "SP", "discovered", "SP", "1903">>
Topic1 == <<"radium", "SP", "discovered", "SP", "1903">>

\* a suggestion of two words with two spaces between them
TwoWords == <<"Curie", "SP", "SP", "radium">>

\* the response the subquestion prompt asks for, with entries the filter drops
WellFormedSubqReply ==
    <<SegJson(JArr(<<JStr(SubQ1), JStr(<<"w">>), JNum(5), JStr(SubQ2)>>))>>

\* responses of the reasoning LLM to the subquestion prompt
SubqReplies ==
    { WellFormedSubqReply,
      <<SegProse(<<"w">>), SegJson(JArr(<<JStr(SubQ2)>>))>>,
      <<SegJson(JObj(<< <<"subquestions", JArr(<<JStr(SubQ1)>>)>> >>))>>,
      <<SegProse(<<"w">>)>> }

AnalysisObject(members) == <<SegJson(JObj(members))>>

\* the response the analysis prompt asks for
WellFormedReply ==
      AnalysisObject(<< <<"summary", JStr(<<"s">>)>>, <<"hasAnswer", JBool(FALSE)>>,
                        <<"confidence", JStr(<<"low">>)>>,
                        <<"gaps", JArr(<<JStr(Topic1)>>)>>,
                        <<"shouldContinue", JBool(TRUE)>>,
                        <<"subquestions", JArr(<<JStr(SubQ1), JStr(SubQ2)>>)>>,
                        <<"subAnswer", JStr(<<"a">>)>>,
                        <<"nextSearchTopic", JStr(Topic1)>> >>)

\* responses of the reasoning LLM to the analysis prompt
AnalysisReplies ==
    { WellFormedReply,
      AnalysisObject(<< <<"summary", JStr(<<"s">>)>>, <<"hasAnswer", JBool(TRUE)>>,
                        <<"confidence", JStr(<<"high">>)>>,
                        <<"gaps", JArr(<<>>)>>,
                        <<"shouldContinue", JBool(TRUE)>>,
                        <<"nextSearchTopic", JStr(<<"who">>)>> >>),
      AnalysisObject(<< <<"summary", JStr(<<"s">>)>>,
                        <<"gaps", JArr(<<JStr(Topic1)>>)>>,
                        <<"shouldContinue", JBool(FALSE)>> >>),
      AnalysisObject(<< <<"summary", JStr(<<"s">>)>>,
                        <<"shouldContinue", JBool(TRUE)>> >>),
      AnalysisObject(<< <<"summary", JStr(<<"s">>)>>,
                        <<"gaps", JArr(<<JStr(Topic1)>>)>>,
                        <<"shouldContinue", JBool(FALSE)>>,
                        <<"subquestions", JStr(<<"w">>)>> >>),
      AnalysisObject(<< <<"summary", JStr(<<"s">>)>>,
                        <<"gaps", JArr(<<JStr(Topic1)>>)>>,
                        <<"shouldContinue", JBool(TRUE)>>,
                        <<"nextSearchTopic", JNum(5)>> >>),
      AnalysisObject(<< <<"summary", JStr(<<"s">>)>>,
                        <<"gaps", JArr(<<JStr(Topic1)>>)>>,
                        <<"shouldContinue", JBool(TRUE)>>,
                        <<"nextSearchTopic", JStr(TwoWords)>>,
                        <<"urlToSearch", JStr(<<UrlD>>)>> >>),
      <<SegJson(JNum(0))>>,
      <<SegProse(<<"insufficient">>)>> }

\* a response that claims an answer with high confidence, names a gap,
\* asks to continue and suggests a URL
ConfidentReply ==
      AnalysisObject(<< <<"summary", JStr(<<"s">>)>>, <<"hasAnswer", JBool(TRUE)>>,
                        <<"confidence", JStr(<<"high">>)>>,
                        <<"gaps", JArr(<<JStr(Topic1)>>)>>,
                        <<"shouldContinue", JBool(TRUE)>>,
                        <<"urlToSearch", JStr(<<UrlB>>)>> >>)

\* the responses to the analysis prompt of the tool: in the runs whose
\* history is watched the LLM may also give ConfidentReply
ToolAnalysisReplies(h) ==
    IF h.watching THEN AnalysisReplies \cup {ConfidentReply} ELSE AnalysisReplies

Throws == <<"throws">>

\* the text the synthesis prompt asks for
WellFormedSynthText ==
    <<"Explanation:", "SP", "w", "NL", "Exact Answer:", "SP", "w", "NL",
      "Confidence:", "SP", "5", "5", "%">>

\* texts of the reasoning LLM for the final synthesis
SynthTexts ==
    { WellFormedSynthText,
      <<"Explanation:", "SP", "w", "NL", "w", "NL", "Exact Answer:", "SP", "w",
        "NL", "Confidence:", "SP", "5", "5", "%">>,
      <<"explanation:", "SP", "w", "NL", "exact answer:", "SP", "w", "NL",
        "confidence:", "SP", "5", "%">>,
      <<"Exact Answer:", "SP", "w", "SP", "Confidence:", "SP", "9", "9", "9", "%">>,
      <<"w">>,
      <<>> }

-----------------------------------------------------------------------------
(* Steps shared by the two modes                                            *)

\* a reply of the reasoning LLM, charged to the budget unless well-formed
OddReply(reply, wellFormed) ==
    /\ reply # wellFormed => budget.odd > 0
    /\ budget' = IF reply # wellFormed THEN [budget EXCEPT !.odd = @ - 1] ELSE budget

\* timeLimit (lines 608 and 1040), in milliseconds
TimeLimit == 210000

\* Date.now() - startTime at the head of a hop
ElapsedReadings == {0, TimeLimit - 1, TimeLimit, TimeLimit + 1}

\* a faulty variant: the limit tested with > instead of >=
TimeIsUpLate(timeElapsed, timeLimit) == timeElapsed > timeLimit

\* timeElapsed >= timeLimit (lines 716 and 1143)
TimeIsUp(timeElapsed, timeLimit) == timeElapsed >= timeLimit

\* the history after the head of a hop read the clock: whether the limit
\* had elapsed at that reading
Observed(h, timeElapsed) == [h EXCEPT !.timeUp = (timeElapsed >= TimeLimit)]

\* the while condition of lines 714 and 1141
\* maxDepth is a JavaScript number and need not be whole: maxDepth and
\* what is computed from it (totalExpectedSteps) are kept in halves, so that
\* 3 stands for 1.5; n is a whole number
Halves(n) == 2 * n

\* researchState.currentDepth < maxDepth (lines 714 and 1141)
LoopRuns(currentDepth, limit) == Halves(currentDepth) < limit

\* researchState.currentDepth++ of lines 721 and 1147
NextDepth(currentDepth) == currentDepth + 1

\* a faulty variant: one more round of the loop of searchWithRetry
SearchStepOneMore(i, kind) ==
    IF kind = "ok" THEN "returns"
    ELSE IF i <= SearchRetries THEN "retry"
    ELSE "throws"

\* what one attempt of searchWithRetry leads to: "returns", "retry" (after
\* the setTimeout of lines 367 and 375), or "throws" to the caller
SearchStep(i, kind) ==
    IF kind = "ok" THEN "returns"
    ELSE IF i < SearchRetries THEN "retry"
    ELSE "throws"

\* i++ of the for loop of searchWithRetry
NextAttempt(i) == i + 1

\* a faulty variant: the loop over the queries never advances
NextQueryStuck(q) == q

\* the for-of loop over the five queries of a hop (line 809): the queries done
NextQuery(q) == q + 1

\* the findings extractWithRetry returns for a successful app.extract
\* (lines 462-471): one per item of an array payload, otherwise one for
\* the payload, also when it is the object {"names":[]}
ExtractReturn(outcome, url) ==
    CASE outcome = "array2" -> << [text |-> "item1", source |-> url],
                                  [text |-> "item2", source |-> url] >>
      [] outcome = "payload" -> << [text |-> "payload", source |-> url] >>
      [] outcome = "sentinel" -> << [text |-> "{\"names\":[]}", source |-> url] >>
      [] OTHER -> <<>>

\* i <= retries for the next round of the loop of extractWithRetry (line 455)
MoreExtractRounds(i) == i < ExtractRetries

\* faulty variants: push(newFindings[0]) and unshift(...newFindings)
PushFirst(list, more) == IF more = <<>> THEN list ELSE Append(list, Head(more))
PushFront(list, more) == more \o list

\* findings.push(...newFindings)
PushAll(list, more) == list \o more

\* the history of a hop, kept when search failures are watched:
\* searchWithRetry threw in it (lines 370-372, 379), and the hop is over
Exhausted(h) == IF h.watching THEN [h EXCEPT !.exhausted = TRUE] ELSE h
HopOver(h) == [h EXCEPT !.exhausted = FALSE]

\* the failure branch of lines 839-843, 871-875, 1180-1184 and 1243-1247
FailedHop(rs) == [rs EXCEPT !.failedAttempts = @ + 1]
\* a faulty variant: the limit tested with > instead of >=
GivesUpLate(rs) == rs.failedAttempts > rs.maxFailedAttempts
GivesUp(rs) == rs.failedAttempts >= rs.maxFailedAttempts

\* Array.prototype.includes on a list of JSON values: SameValueZero, so an
\* object or array is never found by value
IncludesValue(list, x) ==
    x.t \notin {"obj", "arr"} /\ \E k \in DOMAIN list : list[k] = x

-----------------------------------------------------------------------------
(* POST: dispatch on the User-Agent (lines 1345-1350) and the entry of      *)
(* handleBrowseCompRequest (lines 590-623)                                  *)

DispatchEval ==
    /\ pc = "request"
    /\ UNCHANGED <<fvars, pvars, svars, tvars, cvars>>
    /\ IsSimpleEval(userAgent) /\ Len(messages) > 0
    /\ mode' = "eval"
    /\ lastUserMessage' = messages[Len(messages)]
    /\ IF messages[Len(messages)] = <<>>
       THEN /\ response' = Ok200(ensureValidBrowseCompFormat(<<>>, <<"No message provided">>))
            /\ pc' = "done"
            /\ UNCHANGED <<maxDepth, researchState>>
       ELSE /\ maxDepth' = Halves(EvalMaxDepth)
            /\ researchState' = EvalResearchState
            /\ pc' = "hopHead"
            /\ UNCHANGED response
    /\ UNCHANGED <<userAgent, messages, loc, toolvars, clock, budget, hist>>

\* the catch of lines 1020-1028
EvalCatch ==
    /\ response' = Ok200(ensureValidBrowseCompFormat(<<>>, lastUserMessage))
    /\ pc' = "done"
    /\ loc' = LocIdle

-----------------------------------------------------------------------------
(* Eval mode: the head of the loop and the choice of the topic              *)

\* the history of the queue, kept when watched: the subquestions that
\* subquestions.shift() has returned (lines 731 and 786)
Dequeued(h, before, after) ==
    IF h.watching /\ before # <<>> /\ after = Tail(before)
    THEN [h EXCEPT !.dequeued = @ \cup {Head(before)}]
    ELSE h

\* lines 726-796 up to the await of the subquestion prompt
SelectTopic(rs, question) ==
    IF rs.currentDepth = 1
    THEN [kind |-> "topic", topic |-> JStr(question), rs |-> rs]
    ELSE IF rs.subquestions # <<>>
    THEN [kind |-> "topic", topic |-> Head(rs.subquestions),
          rs |-> [rs EXCEPT !.subquestions = Tail(@),
                            !.answeredSubquestions = Append(@, Head(rs.subquestions))]]
    ELSE IF ~Truthy(rs.nextSearchTopic)
    THEN [kind |-> "generate", topic |-> JStr(<<>>), rs |-> rs]
    ELSE IF IsGenericThrows(rs.nextSearchTopic)
    THEN [kind |-> "throws", topic |-> JStr(<<>>), rs |-> rs]
    ELSE IF IsGenericString(rs.nextSearchTopic.v)
    THEN [kind |-> "generate", topic |-> JStr(<<>>), rs |-> rs]
    ELSE [kind |-> "topic", topic |-> rs.nextSearchTopic, rs |-> rs]

\* a faulty variant: the topic chosen is kept whatever failed before
NoKeywordOverride(rs, topic, question) == topic

\* lines 798-801
KeywordOverride(rs, topic, question) ==
    IF rs.failedAttempts >= 2 /\ rs.findings = <<>>
    THEN JStr(generateFallbackQuery(question))
    ELSE topic

EvalHopHead ==
    /\ mode = "eval" /\ pc = "hopHead"
    /\ UNCHANGED <<fvars, pvars, svars, tvars, cvars>>
    /\ IF ~LoopRuns(researchState.currentDepth, maxDepth)
       THEN /\ pc' = "synthConstraints"
            /\ hist' = Forget(hist)
            /\ UNCHANGED <<researchState, loc, clock, response>>
       ELSE \E timeElapsed \in ElapsedReadings :
            \E h \in {Observed(Forget(hist), timeElapsed)} :
            /\ UNCHANGED clock
            /\ IF TimeIsUp(timeElapsed, TimeLimit)
               THEN /\ pc' = "synthConstraints"
                    /\ hist' = h
                    /\ UNCHANGED <<researchState, loc, response>>
               ELSE \E sel \in {SelectTopic([researchState EXCEPT !.currentDepth = NextDepth(@)],
                                              lastUserMessage)} :
                        CASE sel.kind = "topic" ->
                                 /\ researchState' = sel.rs
                                 /\ loc' = [LocIdle EXCEPT !.searchTopic =
                                               KeywordOverride(sel.rs, sel.topic, lastUserMessage)]
                                 /\ pc' = "search"
                                 /\ hist' = Dequeued(h, researchState.subquestions,
                                                      sel.rs.subquestions)
                                 /\ UNCHANGED response
                          [] sel.kind = "generate" ->
                                 /\ researchState' = sel.rs
                                 /\ pc' = "genSubq"
                                 /\ hist' = h
                                 /\ UNCHANGED <<loc, response>>
                          [] OTHER ->
                                 /\ researchState' = sel.rs
                                 /\ hist' = [h EXCEPT !.loopThrew = TRUE]
                                 /\ EvalCatch
    /\ UNCHANGED <<reqvars, toolvars, budget>>

\* lines 761-776: initialSubs after the three parse attempts
SubqParsed(text) ==
    IF DirectParses(text) THEN DirectParse(text)
    ELSE IF \E k \in DOMAIN text : text[k].k = "json" /\ text[k].v.t = "arr"
    THEN (LET k == CHOOSE k \in DOMAIN text :
                      /\ text[k].k = "json" /\ text[k].v.t = "arr"
                      /\ \A j \in 1..(k - 1) : ~(text[j].k = "json" /\ text[j].v.t = "arr")
          IN  text[k].v)
    ELSE JArr(<<>>)

\* lines 778-780
UsableSubquestions(list) ==
    Take(SelectSeq(list, LAMBDA q : q.t = "str" /\ PhraseLength(q.v) > 10
                                     /\ PhraseLength(q.v) < 100), 8)

\* lines 755-793: the topic and the queue after the subquestion prompt, and
\* the queue as it was after the push of line 785
GenerateSubquestions(reply, rs, question) ==
    IF reply = LlmThrows \/ SubqParsed(reply).t # "arr"
    THEN [topic |-> JStr(extractKeyTerms(question)), rs |-> rs, pushed |-> rs.subquestions]
    ELSE LET initialSubs == UsableSubquestions(SubqParsed(reply).v)
             queue == PushAll(rs.subquestions, initialSubs)
         IN  IF initialSubs # <<>>
             THEN [topic |-> Head(queue), rs |-> [rs EXCEPT !.subquestions = Tail(queue)],
                   pushed |-> queue]
             ELSE [topic |-> JStr(generateFallbackQuery(question)), rs |-> rs,
                   pushed |-> rs.subquestions]

EvalGenSubq ==
    /\ mode = "eval" /\ pc = "genSubq"
    /\ UNCHANGED <<fvars, pvars, svars, tvars, cvars>>
    /\ \E reply \in SubqReplies \cup {LlmThrows} :
           /\ OddReply(reply, WellFormedSubqReply)
           /\ \E gen \in {GenerateSubquestions(reply, researchState, lastUserMessage)} :
                  /\ researchState' = gen.rs
                  /\ loc' = [LocIdle EXCEPT !.searchTopic =
                                KeywordOverride(gen.rs, gen.topic, lastUserMessage)]
                  /\ hist' = Dequeued(hist, gen.pushed, gen.rs.subquestions)
    /\ pc' = "search"
    /\ UNCHANGED <<reqvars, response, toolvars, clock>>

-----------------------------------------------------------------------------
(* Eval mode: the five searches of a hop (lines 806-831) and the selection  *)
(* of the top unseen URLs (lines 835-847)                                   *)

RECURSIVE CountIn(_, _)
CountIn(data, url) ==
    IF data = <<>> THEN 0
    ELSE (IF Head(data) = url THEN 1 ELSE 0) + CountIn(Tail(data), url)

\* the history of search responses: per URL the responses that list it and
\* the times it was listed
Witnessed(h, data) ==
    [h EXCEPT !.seenIn = [url \in Urls |-> @[url] + (IF CountIn(data, url) > 0 THEN 1 ELSE 0)],
              !.occurrences = [url \in Urls |-> @[url] + CountIn(data, url)]]

EvalSearchCall ==
    /\ mode = "eval" /\ pc = "search"
    /\ UNCHANGED <<fvars, pvars, svars, tvars, cvars>>
    /\ \E out \in SearchOutcomes :
        /\ (out.kind = "ok" /\ out.data # <<>>) => budget.hits > 0
        /\ budget' = IF out.kind = "ok" /\ out.data # <<>>
                      THEN [budget EXCEPT !.hits = @ - 1] ELSE budget
        /\ LET step == SearchStep(loc.i, out.kind)
               nextQuery ==
                   /\ loc' = [loc EXCEPT !.q = NextQuery(@), !.i = 0]
                   /\ pc' = IF NextQuery(loc.q) = SearchQueriesPerHop
                            THEN "select" ELSE "search"
           IN  CASE step = "returns" ->
                        /\ researchState' =
                               [researchState EXCEPT !.urlFrequencyMap = RecordResponse(@, out.data)]
                        /\ hist' = Witnessed(hist, out.data)
                        /\ nextQuery
                 [] step = "retry" ->
                        /\ loc' = [loc EXCEPT !.i = NextAttempt(@)]
                        /\ UNCHANGED <<pc, researchState, hist>>
                 [] OTHER ->
                        /\ nextQuery
                        /\ hist' = Exhausted(hist)
                        /\ UNCHANGED researchState
    /\ UNCHANGED <<reqvars, response, toolvars, clock>>

EvalSelect ==
    /\ mode = "eval" /\ pc = "select"
    /\ UNCHANGED <<fvars, pvars, svars, tvars, cvars>>
    /\ \E topUrls \in {getUrlsToProcess(researchState.urlFrequencyMap,
                                          researchState.processedUrls)} :
           IF topUrls = <<>>
           THEN /\ researchState' = FailedHop(researchState)
                /\ pc' = IF GivesUp(FailedHop(researchState))
                         THEN "synthConstraints" ELSE "hopHead"
                /\ loc' = LocIdle
                /\ hist' = HopOver(hist)
           ELSE /\ researchState' =
                       [researchState EXCEPT !.processedUrls =
                           @ \cup {topUrls[k] : k \in DOMAIN topUrls}]
                /\ loc' = [loc EXCEPT !.topUrls = topUrls]
                /\ pc' = "constraints"
                /\ UNCHANGED hist
    /\ UNCHANGED <<reqvars, response, toolvars, clock, budget>>

-----------------------------------------------------------------------------
(* Eval mode: extraction (extractFromUrls, extractWithRetry)                *)

\* await extractConstraintsWithLLM (line 856): it returns the constraints or
\* its own fallback and never throws; the constraints only shape the prompt.
\* Then extractFromUrls filters the URLs (line 497).
EvalConstraints ==
    /\ mode = "eval" /\ pc = "constraints"
    /\ UNCHANGED <<fvars, pvars, svars, tvars, cvars>>
    /\ \E reply \in {"text", "throws"} :
        LET filteredUrls == filterUrls(loc.topUrls)
        IN  /\ loc' = [loc EXCEPT !.urls = filteredUrls, !.u = 1, !.e = 0, !.results = <<>>]
            /\ pc' = IF filteredUrls = <<>> THEN "analyze" ELSE "extract"
    /\ UNCHANGED <<reqvars, researchState, response, toolvars, clock, budget, hist>>

\* extractWithRetry returned r for the URL at loc.u (lines 514-521), and after
\* the last URL the findings are pushed (line 859)
UrlDone(r, h) ==
    LET results == IF Len(r) > 0 THEN PushAll(loc.results, r) ELSE loc.results
    IN  /\ hist' = [h EXCEPT !.nonEmpty = @ + (IF r # <<>> THEN 1 ELSE 0),
                             !.items = @ + Len(r)]
        /\ IF loc.u < Len(loc.urls)
           THEN /\ loc' = [loc EXCEPT !.u = @ + 1, !.e = 0, !.results = results]
                /\ pc' = "extract"
                /\ UNCHANGED researchState
           ELSE /\ loc' = [loc EXCEPT !.u = 0, !.e = 0, !.urls = <<>>, !.results = <<>>]
                /\ researchState' = [researchState EXCEPT !.findings = PushAll(@, results)]
                /\ pc' = "analyze"

\* the end of one round of the for loop of extractWithRetry without a return:
\* after a failed scrape, or after an exception and the setTimeout of line 490
NextExtractAttempt(h) ==
    IF MoreExtractRounds(loc.e)
    THEN /\ loc' = [loc EXCEPT !.e = @ + 1]
         /\ pc' = "extract"
         /\ hist' = h
         /\ UNCHANGED researchState
    ELSE UrlDone(<<>>, h)

EvalExtractCall ==
    /\ mode = "eval" /\ pc = "extract"
    /\ UNCHANGED <<fvars, pvars, svars, tvars, cvars>>
    /\ \E out \in ExtractOutcomes(loc.urls[loc.u]) :
        LET url == loc.urls[loc.u]
            h == IF loc.e = 0 THEN [hist EXCEPT !.handed = Append(@, url)] ELSE hist
        IN  CASE out = "fail" ->
                     /\ pc' = "scrape"
                     /\ hist' = h
                     /\ UNCHANGED <<researchState, loc>>
              [] out = "throws" -> NextExtractAttempt(h)
              [] OTHER -> UrlDone(ExtractReturn(out, url), h)
    /\ UNCHANGED <<reqvars, response, toolvars, clock, budget>>

\* lines 473-487: the scrape fallback
EvalScrape ==
    /\ mode = "eval" /\ pc = "scrape"
    /\ UNCHANGED <<fvars, pvars, svars, tvars, cvars>>
    /\ \E out \in ScrapeOutcomes :
        IF out = "markdown"
        THEN UrlDone(<< [text |-> "markdown", source |-> loc.urls[loc.u]] >>, hist)
        ELSE NextExtractAttempt(hist)
    /\ UNCHANGED <<reqvars, response, toolvars, clock, budget>>

-----------------------------------------------------------------------------
(* Eval mode: analysis (lines 868-924)                                      *)

\* lines 870-919 for the analysis the Analyzer returned: how the hop ends
\* ("failed", "throws", "break", "continue") and the state it leaves
AfterAnalysis(rs, analysis, searchTopic) ==
    IF ~Truthy(analysis) THEN [kind |-> "failed", rs |-> rs]
    ELSE
    LET subAnswer == Get(analysis, "subAnswer")
        rs1 == IF Truthy(subAnswer) /\ Truthy(searchTopic)
               THEN [rs EXCEPT !.subAnswers =
                        Append(@, [query |-> searchTopic, answer |-> subAnswer])]
               ELSE rs
        subs == Get(analysis, "subquestions")
        hasSubs == /\ CanRead(subs)
                   /\ Get(subs, "length").t = "num"
                   /\ Get(subs, "length").v > 0
        newSubs == SelectSeq(subs.v, LAMBDA q :
                       /\ ~IncludesValue(rs1.subquestions, q)
                       /\ ~IncludesValue(rs1.answeredSubquestions, q))
        rs2 == IF hasSubs
               THEN [rs1 EXCEPT !.subquestions = PushAll(@, newSubs)]
               ELSE rs1
        rs3 == [rs2 EXCEPT !.summaries = Append(@, Get(analysis, "summary"))]
        hasAnswer == Truthy(Get(analysis, "hasAnswer"))
        confidence == Get(analysis, "confidence")
        shouldStop == \/ hasAnswer /\ confidence = JStr(<<"high">>) /\ Len(rs3.findings) >= 3
                      \/ hasAnswer /\ confidence = JStr(<<"medium">>) /\ Len(rs3.findings) >= 6
                      \/ Len(rs3.findings) >= 8
        topic == Get(analysis, "nextSearchTopic")
    IN  IF hasSubs /\ subs.t # "arr" THEN [kind |-> "throws", rs |-> rs1]
        ELSE IF shouldStop THEN [kind |-> "break", rs |-> rs3]
        ELSE IF ~Truthy(Get(analysis, "shouldContinue")) THEN [kind |-> "break", rs |-> rs3]
        ELSE [kind |-> "continue",
              rs |-> [rs3 EXCEPT !.nextSearchTopic =
                         IF Truthy(topic) THEN topic ELSE JStr(<<>>)]]

EvalAnalyze ==
    /\ mode = "eval" /\ pc = "analyze"
    /\ UNCHANGED <<fvars, pvars, svars, tvars, cvars>>
    /\ \E reply \in AnalysisReplies \cup {LlmThrows} :
        /\ OddReply(reply, WellFormedReply)
        /\ \E now \in (IF UsesClock(reply) THEN LaterClocks(clock) ELSE {clock}) :
           \E analysis \in {analyzeAndPlan(reply, Len(researchState.findings),
                                           TenthsLeft(now), lastUserMessage)} :
           \E after \in {AfterAnalysis(researchState, analysis, loc.searchTopic)} :
               /\ clock' = now
               /\ CASE after.kind = "failed" ->
                        /\ researchState' = FailedHop(after.rs)
                        /\ pc' = IF GivesUp(FailedHop(after.rs))
                                 THEN "synthConstraints" ELSE "hopHead"
                        /\ loc' = LocIdle
                        /\ hist' = [HopOver(hist) EXCEPT !.analysis = analysis]
                        /\ UNCHANGED response
                 [] after.kind = "throws" ->
                        /\ researchState' = after.rs
                        /\ hist' = [HopOver(hist) EXCEPT !.analysis = analysis, !.loopThrew = TRUE]
                        /\ EvalCatch
                 [] after.kind = "break" ->
                        /\ researchState' = after.rs
                        /\ pc' = "synthConstraints"
                        /\ loc' = LocIdle
                        /\ hist' = [HopOver(hist) EXCEPT !.analysis = analysis]
                        /\ UNCHANGED response
                 [] OTHER ->
                        /\ researchState' = after.rs
                        /\ pc' = "hopHead"
                        /\ loc' = LocIdle
                        /\ hist' = [HopOver(hist) EXCEPT !.analysis = analysis]
                        /\ UNCHANGED response
    /\ UNCHANGED <<reqvars, toolvars>>

-----------------------------------------------------------------------------
(* Eval mode: final synthesis (lines 927-1018)                              *)

\* the template literal of lines 1004-1006
HardFallback ==
    <<"Explanation:", "SP", "NoMatch", "DOT", "NL", "Exact Answer:", "SP", "Unknown",
      "NL", "Confidence:", "SP", "0", "%">>

\* await extractConstraintsWithLLM (line 930): never throws
EvalSynthConstraints ==
    /\ mode = "eval" /\ pc = "synthConstraints"
    /\ UNCHANGED <<fvars, pvars, svars, tvars, cvars>>
    /\ \E reply \in {"text", "throws"} : pc' = "synth"
    /\ hist' = [Forget(hist) EXCEPT !.synthReached = TRUE]
    /\ UNCHANGED <<reqvars, researchState, loc, response, toolvars, clock, budget>>

\* formattedResult.includes('Exact Answer:')
IncludesExactAnswer(text) == \E k \in DOMAIN text : text[k] = "Exact Answer:"

\* lines 990-1018: the response for the text the synthesis LLM returned
SynthesisContent(text, question) ==
    LET formattedResult == ensureValidBrowseCompFormat(text, question)
    IN  IF ~IncludesExactAnswer(formattedResult) THEN HardFallback
        ELSE formattedResult

\* SynthesisContent on the texts the synthesis LLM returns, tabulated
SynthesisContents ==
    [text \in SynthTexts |-> [question \in Questions |-> SynthesisContent(text, question)]]

\* formattedResult of line 995 on the texts the synthesis LLM returns,
\* tabulated
FormattedResults ==
    [text \in SynthTexts |->
        [question \in Questions |-> ensureValidBrowseCompFormat(text, question)]]

\* history: the Formatter's output for the synthesis text
Formatted(h, formattedResult) ==
    IF h.watching THEN [h EXCEPT !.formatted = formattedResult] ELSE h

EvalSynth ==
    /\ mode = "eval" /\ pc = "synth"
    /\ UNCHANGED <<fvars, pvars, svars, tvars, cvars>>
    /\ \E reply \in SynthTexts \cup {Throws} :
        /\ OddReply(reply, WellFormedSynthText)
        /\ IF reply = Throws
           THEN /\ EvalCatch
                /\ UNCHANGED hist
           ELSE /\ response' = Ok200(SynthesisContents[reply][lastUserMessage])
                /\ pc' = "done"
                /\ loc' = LocIdle
                /\ hist' = Formatted(hist, FormattedResults[reply][lastUserMessage])
    /\ UNCHANGED <<reqvars, researchState, toolvars, clock>>

-----------------------------------------------------------------------------
(* Interactive mode: createDeepResearchTool.execute.  POST takes the normal *)
(* flow (session, rate limit, chat record), and the chat model calls the    *)
(* tool with a topic and a maxDepth.                                        *)

\* lines 1042-1054
ToolResearchState(depth) ==
    [EvalResearchState EXCEPT !.totalExpectedSteps = depth * 5]

\* one dataStream.writeData
Event(type, kind, status, rs, data) ==
    [type |-> type, kind |-> kind, status |-> status, depth |-> rs.currentDepth,
     completedSteps |-> rs.completedSteps, totalSteps |-> rs.totalExpectedSteps,
     data |-> data, max |-> 0]

\* the progress-init and depth-delta events (lines 1057-1063, 1149-1157),
\* which carry maxDepth (in halves, as totalSteps)
DepthEvent(type, rs, max) == [Event(type, "", "", rs, "") EXCEPT !.max = max]

\* a faulty variant: every activity counts as a completed step
addActivityAlways(st, kind, status) ==
    LET rs == [st.rs EXCEPT !.completedSteps = @ + 1]
    IN  [rs |-> rs,
         stream |-> Append(st.stream, Event("activity-delta", kind, status, rs, ""))]

\* addActivity (lines 1072-1092) on the pair of research state and stream
addActivity(st, kind, status) ==
    LET rs == IF status = "complete"
              THEN [st.rs EXCEPT !.completedSteps = @ + 1] ELSE st.rs
    IN  [rs |-> rs,
         stream |-> Append(st.stream, Event("activity-delta", kind, status, rs, ""))]

RECURSIVE addActivities(_, _, _, _)
addActivities(st, kind, status, n) ==
    IF n = 0 THEN st ELSE addActivities(addActivity(st, kind, status), kind, status, n - 1)

DispatchNormal ==
    /\ pc = "request"
    /\ UNCHANGED <<fvars, pvars, svars, tvars, cvars>>
    /\ ~(IsSimpleEval(userAgent) /\ Len(messages) > 0)
    /\ mode' = "interactive"
    /\ IF messages = <<>>
       THEN /\ response' = [status |-> 400, content |-> <<"No user message found">>]
            /\ pc' = "done"
            /\ UNCHANGED <<lastUserMessage, maxDepth, researchState, loc, stream>>
       ELSE \E topic \in Questions, depth \in ToolDepths :
            /\ lastUserMessage' = messages[Len(messages)]
            /\ maxDepth' = depth
            /\ researchState' = ToolResearchState(depth)
            /\ loc' = [LocIdle EXCEPT !.topic = JStr(topic)]
            /\ stream' = << DepthEvent("progress-init", ToolResearchState(depth), depth) >>
            /\ pc' = "hopHead"
            /\ UNCHANGED response
    /\ UNCHANGED <<userAgent, messages, toolResult, clock, budget, hist>>

\* a faulty variant: the catch also writes a finish event
ToolCatchFinishes(st) ==
    /\ researchState' = st.rs
    /\ stream' = Append(addActivity(st, "thought", "error").stream,
                        Event("finish", "", "", st.rs, ""))
    /\ toolResult' = "failure"
    /\ pc' = "done"
    /\ loc' = [LocIdle EXCEPT !.topic = loc.topic]

\* the catch of lines 1307-1327
ToolCatch(st) ==
    /\ researchState' = st.rs
    /\ stream' = addActivity(st, "thought", "error").stream
    /\ toolResult' = "failure"
    /\ pc' = "done"
    /\ loc' = [LocIdle EXCEPT !.topic = loc.topic]

\* lines 1266-1274: the loop is left and the synthesis LLM is called
StartSynthesis(st) ==
    /\ researchState' = st.rs
    /\ stream' = addActivity(st, "synthesis", "pending").stream
    /\ pc' = "synth"
    /\ loc' = [LocIdle EXCEPT !.topic = loc.topic]
    /\ UNCHANGED toolResult

ToolHopHead ==
    /\ mode = "interactive" /\ pc = "hopHead"
    /\ UNCHANGED <<fvars, pvars, svars, tvars, cvars>>
    /\ LET st == [rs |-> researchState, stream |-> stream]
       IN  IF ~LoopRuns(researchState.currentDepth, maxDepth)
           THEN /\ StartSynthesis(st)
                /\ hist' = [Forget(hist) EXCEPT !.synthReached = TRUE]
           ELSE \E timeElapsed \in ElapsedReadings :
                IF TimeIsUp(timeElapsed, TimeLimit)
                THEN /\ StartSynthesis(st)
                     /\ hist' = [Observed(Forget(hist), timeElapsed) EXCEPT !.synthReached = TRUE]
                ELSE LET rs == [researchState EXCEPT !.currentDepth = NextDepth(@)]
                         st1 == [rs |-> rs,
                                 stream |-> Append(stream, DepthEvent("depth-delta", rs, maxDepth))]
                         st2 == addActivity(st1, "search", "pending")
                     IN  /\ researchState' = st2.rs
                         /\ stream' = st2.stream
                         /\ loc' = [LocIdle EXCEPT
                                       !.topic = loc.topic,
                                       !.searchTopic = IF Truthy(rs.nextSearchTopic)
                                                       THEN rs.nextSearchTopic ELSE loc.topic]
                         /\ pc' = "search"
                         /\ hist' = Observed(Forget(hist), timeElapsed)
                         /\ UNCHANGED toolResult
    /\ UNCHANGED <<reqvars, response, clock, budget>>

\* a JSON value used as a URL string
ToUrlString(x) ==
    IF x.t = "str" /\ Len(x.v) = 1 THEN x.v[1]
    ELSE IF ~Truthy(x) THEN ""
    ELSE UrlBad

RECURSIVE SourceEvents(_, _)
SourceEvents(data, rs) ==
    IF data = <<>> THEN <<>>
    ELSE << Event("source-delta", "", "", rs, Head(data)) >> \o SourceEvents(Tail(data), rs)

RECURSIVE Flat(_)
Flat(parts) == IF parts = <<>> THEN <<>> ELSE Head(parts) \o Flat(Tail(parts))

\* lines 1211-1220: all extractions are back
ExtractionDone(st, parts) ==
    LET st1 == [st EXCEPT !.rs.findings = PushAll(@, Flat(parts))]
    IN  addActivity(st1, "analyze", "pending")

\* lines 1187-1210: the events after the search returned data and the
\* extractions of urls were started
SearchReturned(st, data, urls) ==
    LET st1 == addActivity(st, "search", "complete")
        st2 == [st1 EXCEPT !.stream = @ \o SourceEvents(data, st1.rs)]
        st3 == addActivities(st2, "extract", "pending", Len(urls))
    IN  IF urls = <<>> THEN ExtractionDone(st3, <<>>) ELSE st3

\* lines 1169-1210: one attempt of searchWithRetry and, when it returns, the
\* events and the start of the parallel extractions
ToolSearchCall ==
    /\ mode = "interactive" /\ pc = "search"
    /\ UNCHANGED <<fvars, pvars, svars, tvars, cvars>>
    /\ \E out \in SearchOutcomes :
        /\ (out.kind = "ok" /\ out.data # <<>>) => budget.hits > 0
        /\ budget' = IF out.kind = "ok" /\ out.data # <<>>
                      THEN [budget EXCEPT !.hits = @ - 1] ELSE budget
        /\ LET step == SearchStep(loc.i, out.kind)
               st == [rs |-> researchState, stream |-> stream]
               topUrls == Take(out.data, 3)
               urls == filterUrls(<<ToUrlString(researchState.urlToSearch)>> \o topUrls)
           IN  \E st4 \in {SearchReturned(st, out.data, urls)} :
               CASE step = "returns" ->
                        /\ researchState' = st4.rs
                        /\ stream' = st4.stream
                        /\ loc' = [loc EXCEPT !.topUrls = topUrls, !.urls = urls,
                                              !.pending = DOMAIN urls,
                                              !.parts = [k \in DOMAIN urls |-> <<>>]]
                        /\ pc' = IF urls = <<>> THEN "analyze" ELSE "extract"
                        /\ hist' = [Witnessed(hist, out.data) EXCEPT
                                       !.handed = @ \o urls, !.overtook = FALSE]
                        /\ UNCHANGED toolResult
                 [] step = "retry" ->
                        /\ loc' = [loc EXCEPT !.i = NextAttempt(@)]
                        /\ UNCHANGED <<pc, researchState, stream, toolResult, hist>>
                 [] OTHER ->
                        /\ ToolCatch(st)
                        /\ hist' = [Exhausted(hist) EXCEPT !.loopThrew = TRUE]
    /\ UNCHANGED <<reqvars, response, clock>>

\* a faulty variant: the first extraction to settle ends the wait
JoinedAtFirst(pending, k) == TRUE

\* await Promise.all(extractPromises) (line 1136): the wait ends when the
\* extraction of URL k settles and it is the last one pending
Joined(pending, k) == pending = {k}

\* a faulty variant: results are kept in the order the extractions settle
StoreInCompletionOrder(parts, k, r, done) == [parts EXCEPT ![done + 1] = r]

\* Promise.all (line 1136) keeps the value of the k-th promise at index k,
\* however many (done) have settled before it
StoreResult(parts, k, r, done) == [parts EXCEPT ![k] = r]

\* history: an extraction that yielded findings settled while the extraction
\* of an earlier URL of the list was still pending
Overtook(h, pending, k, r) ==
    IF h.watching /\ r # <<>> /\ \E j \in pending : j < k
    THEN [h EXCEPT !.overtook = TRUE] ELSE h

\* lines 1109-1133: one of the parallel app.extract calls comes back
ToolExtractReturn ==
    /\ mode = "interactive" /\ pc = "extract"
    /\ UNCHANGED <<fvars, pvars, svars, tvars, cvars>>
    /\ \E k \in loc.pending :
       \E out \in ExtractOutcomes(loc.urls[k]) :
        LET success == out \notin {"fail", "throws"}
            r == IF success THEN ExtractReturn(out, loc.urls[k]) ELSE <<>>
            st == [rs |-> researchState, stream |-> stream]
            st1 == IF success THEN addActivity(st, "extract", "complete") ELSE st
            parts == StoreResult(loc.parts, k, r, Len(loc.urls) - Cardinality(loc.pending))
            last == Joined(loc.pending, k)
        IN  \E st2 \in {IF last THEN ExtractionDone(st1, parts) ELSE st1} :
            /\ researchState' = st2.rs
            /\ stream' = st2.stream
            /\ loc' = IF last
                      THEN [loc EXCEPT !.pending = @ \ {k}, !.parts = <<>>, !.urls = <<>>]
                      ELSE [loc EXCEPT !.pending = @ \ {k}, !.parts = parts]
            /\ pc' = IF last THEN "analyze" ELSE "extract"
            /\ hist' = [Overtook(hist, loc.pending, k, r) EXCEPT
                           !.nonEmpty = @ + (IF r # <<>> THEN 1 ELSE 0),
                           !.items = @ + Len(r)]
    /\ UNCHANGED <<reqvars, response, toolResult, clock, budget>>

OrEmpty(x) == IF Truthy(x) THEN x ELSE JStr(<<>>)

\* history: the analysis an interactive hop obtained, kept for one step
Analysed(h, analysis) == IF h.watching THEN [h EXCEPT !.analysis = analysis] ELSE h

\* lines 1223-1262 for the analysis the Analyzer returned: how the hop ends
\* ("failed", "throws", "break", "continue"), the state and the topic it leaves
AfterToolAnalysis(st, analysis, searchTopic, topic) ==
    LET rs1 == [st.rs EXCEPT !.nextSearchTopic = OrEmpty(Get(analysis, "nextSearchTopic")),
                             !.urlToSearch = OrEmpty(Get(analysis, "urlToSearch")),
                             !.summaries = Append(@, OrEmpty(Get(analysis, "summary")))]
        subAnswer == Get(analysis, "subAnswer")
        lastQuery == Get(analysis, "lastQuery")
        rs2 == IF Truthy(subAnswer)
               THEN [rs1 EXCEPT !.subAnswers =
                        Append(@, [query |-> IF Truthy(lastQuery) THEN lastQuery
                                             ELSE searchTopic,
                                   answer |-> subAnswer])]
               ELSE rs1
        st2 == [st EXCEPT !.rs = rs2]
        failed == addActivity(st2, "analyze", "error")
        done == addActivity(st2, "analyze", "complete")
        gaps == Get(analysis, "gaps")
    IN  IF ~Truthy(analysis)
        THEN [kind |-> "failed", st |-> [failed EXCEPT !.rs = FailedHop(@)], topic |-> topic]
        ELSE IF ~Truthy(Get(analysis, "shouldContinue"))
        THEN [kind |-> "break", st |-> done, topic |-> topic]
        ELSE IF ~CanRead(gaps)
        THEN [kind |-> "throws", st |-> done, topic |-> topic]
        ELSE IF Get(gaps, "length") = JNum(0)
        THEN [kind |-> "break", st |-> done, topic |-> topic]
        ELSE IF gaps.t # "arr"
        THEN [kind |-> "throws", st |-> done, topic |-> topic]
        ELSE [kind |-> "continue", st |-> done,
              topic |-> IF Truthy(Head(gaps.v)) THEN Head(gaps.v) ELSE topic]

ToolAnalyze ==
    /\ mode = "interactive" /\ pc = "analyze"
    /\ UNCHANGED <<fvars, pvars, svars, tvars, cvars>>
    /\ \E reply \in ToolAnalysisReplies(hist) \cup {LlmThrows} :
        /\ OddReply(reply, WellFormedReply)
        /\ \E now \in (IF UsesClock(reply) THEN LaterClocks(clock) ELSE {clock}) :
           \E analysis \in {analyzeAndPlan(reply, Len(researchState.findings),
                                           TenthsLeft(now), loc.topic.v)} :
           \E after \in {AfterToolAnalysis([rs |-> researchState, stream |-> stream],
                                           analysis, loc.searchTopic, loc.topic)} :
               /\ clock' = now
               /\ CASE after.kind = "throws" ->
                        /\ ToolCatch(after.st)
                        /\ hist' = [Analysed(hist, analysis) EXCEPT !.loopThrew = TRUE]
                 [] after.kind = "break" \/ (after.kind = "failed" /\ GivesUp(after.st.rs)) ->
                        /\ StartSynthesis(after.st)
                        /\ hist' = [Analysed(hist, analysis) EXCEPT !.synthReached = TRUE]
                 [] OTHER ->
                        /\ researchState' = after.st.rs
                        /\ stream' = after.st.stream
                        /\ loc' = [LocIdle EXCEPT !.topic = after.topic]
                        /\ pc' = "hopHead"
                        /\ hist' = Analysed(hist, analysis)
                        /\ UNCHANGED toolResult
    /\ UNCHANGED <<reqvars, response>>

\* lines 1274-1306
ToolSynth ==
    /\ mode = "interactive" /\ pc = "synth"
    /\ UNCHANGED <<fvars, pvars, svars, tvars, cvars>>
    /\ \E reply \in {<<"text">>, Throws} :
        /\ OddReply(reply, <<"text">>)
        /\ LET st == [rs |-> researchState, stream |-> stream]
               st1 == addActivity(st, "synthesis", "complete")
           IN  IF reply = Throws
               THEN ToolCatch(st)
               ELSE /\ researchState' = st1.rs
                    /\ stream' = Append(st1.stream, Event("finish", "", "", st1.rs, "text"))
                    /\ toolResult' = "success"
                    /\ pc' = "done"
                    /\ UNCHANGED loc
    /\ hist' = Forget(hist)
    /\ UNCHANGED <<reqvars, response, clock>>

-----------------------------------------------------------------------------
(* Formatter harness: the function applied once and twice to bounded inputs *)

MaxTextLen == 4

TextAlphabet ==
    {"Explanation:", "Exact Answer:", "exact answer:", "Confidence:",
     "NL", "SP", "w", "5", "%"}

RECURSIVE SeqsUpTo(_, _)
SeqsUpTo(S, n) ==
    IF n = 0 THEN {<<>>}
    ELSE LET shorter == SeqsUpTo(S, n - 1)
         IN  shorter \cup {Append(s, x) : s \in shorter, x \in S}

FmtTexts == SeqsUpTo(TextAlphabet, MaxTextLen)

\* questions: plain, with a label, with a line break, with both
FmtQueries ==
    { <<"w">>,
      <<"w", "SP", "Confidence:", "SP", "7", "%">>,
      <<"w", "NL", "w">>,
      <<"w", "NL", "Confidence:", "SP", "7", "%">>,
      <<"w", "NL", "exact answer:", "SP", "w">> }

InitFmt ==
    /\ PrsIdle /\ SelIdle /\ TryIdle /\ ConIdle /\ HandlerIdle
    /\ fmtText \in FmtTexts
    /\ fmtQuery \in FmtQueries
    /\ fmtOnce = "none"
    /\ fmtTwice = "none"
    /\ fmtPc = "start"

FormatOnce ==
    /\ fmtPc = "start"
    /\ UNCHANGED <<pvars, svars, tvars, cvars, hvars>>
    /\ fmtOnce' = ensureValidBrowseCompFormat(fmtText, fmtQuery)
    /\ fmtPc' = "once"
    /\ UNCHANGED <<fmtText, fmtQuery, fmtTwice>>

FormatTwice ==
    /\ fmtPc = "once"
    /\ UNCHANGED <<pvars, svars, tvars, cvars, hvars>>
    /\ fmtTwice' = ensureValidBrowseCompFormat(fmtOnce, fmtQuery)
    /\ fmtPc' = "twice"
    /\ UNCHANGED <<fmtText, fmtQuery, fmtOnce>>

NextFmt == FormatOnce \/ FormatTwice

-----------------------------------------------------------------------------
(* Parser harness: parseAnalysisResponse applied to bounded response texts  *)

Opt(key, x) == IF x = JUndef THEN <<>> ELSE << <<key, x>> >>

InnerAnalysis ==
    JObj(<< <<"summary", JStr(<<"inner">>)>>, <<"shouldContinue", JBool(TRUE)>> >>)

PrsObjects ==
    { JObj(Opt("summary", a) \o Opt("analysis", b) \o Opt("subquestions", c)
           \o Opt("shouldContinue", d) \o Opt("hasAnswer", e) \o Opt("gaps", g)) :
        a \in {JUndef, JNull, JStr(<<"ok">>)},
        b \in {JUndef, JNull, JStr(<<"x">>), InnerAnalysis},
        c \in {JUndef, JStr(<<"w">>), JArr(<<JStr(<<"w">>), JNum(5)>>)},
        d \in {JUndef, JBool(TRUE), JBool(FALSE)},
        e \in {JUndef, JBool(TRUE)},
        g \in {JUndef, JArr(<<>>)} }

PrsScalars ==
    { JNull, JBool(TRUE), JBool(FALSE), JNum(0), JNum(5), JStr(<<>>),
      JStr(<<"found">>), JArr(<<>>), JArr(<<JNum(1)>>),
      JArr(<<JObj(<< <<"summary", JStr(<<"ok">>)>> >>)>>) }

PrsValues == PrsObjects \cup PrsScalars

PrsProse ==
    { SegProse(<<"w">>), SegProse(<<"high confidence">>),
      SegProse(<<"moderate", "insufficient">>), SegProse(<<"identified">>) }

PrsTexts ==
    { <<SegJson(x)>> : x \in PrsValues }
    \cup { <<pr, SegJson(x)>> : pr \in {SegProse(<<"w">>)}, x \in PrsValues }
    \cup { <<SegFence(SegJson(x)), pr>> : pr \in {SegProse(<<"w">>)}, x \in PrsObjects }
    \cup { <<SegFence(SegJunk), SegJson(x)>> : x \in PrsScalars }
    \cup { <<pr>> : pr \in PrsProse }
    \cup { <<pr, SegJunk>> : pr \in PrsProse }

PrsQuestion == <<"Marie", "SP", "Curie", "SP", "discovered", "SP", "radium">>

InitPrs ==
    /\ FmtIdle /\ SelIdle /\ TryIdle /\ ConIdle /\ HandlerIdle
    /\ prsText \in PrsTexts
    /\ prsFindings \in {0, 3, 5}
    /\ prsTenths \in {5, 12, 20}
    /\ prsOut = JUndef
    /\ prsPc = "start"

ParseCall ==
    /\ prsPc = "start"
    /\ UNCHANGED <<fvars, svars, tvars, cvars, hvars>>
    /\ prsOut' = parseAnalysisResponse(prsText, prsFindings, prsTenths, PrsQuestion)
    /\ prsPc' = "done"
    /\ UNCHANGED <<prsText, prsFindings, prsTenths>>

-----------------------------------------------------------------------------
-----------------------------------------------------------------------------
(* Ranker harness: search responses are recorded in the frequency map, then *)
(* the top unseen URLs are selected                                         *)

MaxResponses == 2
MaxListed == 3
SelUrls == {UrlA, UrlB, UrlC, UrlNetflix}
SelResponses == SeqsUpTo(SelUrls, MaxListed) \ {<<>>}

InitSel ==
    /\ FmtIdle /\ PrsIdle /\ TryIdle /\ ConIdle /\ HandlerIdle
    /\ selSeen = <<>>
    /\ selMap = <<>>
    /\ selProcessed \in SUBSET SelUrls
    /\ selOut = <<>>
    /\ selPc = "record"

\* one successful search response: lines 813-825
SelRecord ==
    /\ selPc = "record" /\ Len(selSeen) < MaxResponses
    /\ UNCHANGED <<fvars, pvars, tvars, cvars, hvars>>
    /\ \E data \in SelResponses :
           /\ selSeen' = Append(selSeen, data)
           /\ selMap' = RecordResponse(selMap, data)
    /\ UNCHANGED <<selProcessed, selOut, selPc>>

\* line 835
SelSelect ==
    /\ selPc = "record"
    /\ UNCHANGED <<fvars, pvars, tvars, cvars, hvars>>
    /\ selOut' = getUrlsToProcess(selMap, selProcessed)
    /\ selPc' = "done"
    /\ UNCHANGED <<selSeen, selMap, selProcessed>>

NextSel == SelRecord \/ SelSelect

-----------------------------------------------------------------------------
(* Retry harness: searchWithRetry and extractWithRetry run on their own     *)
(* against a script of what the outside world answers to each call          *)

\* the answers scripted for one run of either function
ScriptLen == 4

\* one round of extractWithRetry: the answer of app.extract raced against the
\* timer ("throws" for an exception or the timeout; "array0" for success
\* with an empty list, "sentinel" for success with {"names":[]}), and what
\* app.scrapeUrl answers for the page if it is called in that round
ExtractAnswers == {"array2", "array0", "payload", "sentinel", "fail", "throws"}
EmptyAnswers == {"array0", "sentinel"}
ExtractRounds ==
    { [extract |-> a, scrape |-> "none"] : a \in ExtractAnswers \ (EmptyAnswers \cup {"fail"}) }
    \cup { [extract |-> a, scrape |-> c] : a \in EmptyAnswers \cup {"fail"}, c \in ScrapeOutcomes }

TryUrl == UrlA

InitTry ==
    /\ FmtIdle /\ PrsIdle /\ SelIdle /\ ConIdle /\ HandlerIdle
    /\ tryKind \in {"search", "extract"}
    /\ tryScript \in IF tryKind = "search" THEN [1 .. ScriptLen + 1 -> SearchOutcomes]
                                           ELSE [1 .. ScriptLen -> ExtractRounds]
    /\ tryI = 0
    /\ tryCalls = 0
    /\ tryScrapes = 0
    /\ tryOut = NotRunning
    /\ tryPc = "call"

\* one round of the loop of searchWithRetry (lines 361-377) and the throw
\* after the loop (line 379)
TrySearch ==
    /\ tryKind = "search" /\ tryPc = "call"
    /\ UNCHANGED <<fvars, pvars, svars, cvars, hvars>>
    /\ LET out == tryScript[tryCalls + 1]
           step == SearchStep(tryI, out.kind)
       IN  /\ tryCalls' = tryCalls + 1
           /\ CASE step = "returns" ->
                       /\ tryOut' = [kind |-> "returns", value |-> out.data]
                       /\ tryPc' = "done"
                       /\ UNCHANGED tryI
                [] step = "retry" ->
                       /\ tryI' = NextAttempt(tryI)
                       /\ UNCHANGED <<tryOut, tryPc>>
                [] OTHER ->
                       /\ tryOut' = [kind |-> "throws", value |-> <<>>]
                       /\ tryPc' = "done"
                       /\ UNCHANGED tryI
    /\ UNCHANGED <<tryKind, tryScript, tryScrapes>>

\* the end of a round of extractWithRetry that did not return (lines 455,
\* 488-493)
TryNextRound ==
    IF MoreExtractRounds(tryI)
    THEN /\ tryI' = tryI + 1
         /\ tryPc' = "call"
         /\ UNCHANGED tryOut
    ELSE /\ tryOut' = [kind |-> "returns", value |-> <<>>]
         /\ tryPc' = "done"
         /\ UNCHANGED tryI

\* lines 457-473: app.extract answers
TryExtract ==
    /\ tryKind = "extract" /\ tryPc = "call"
    /\ UNCHANGED <<fvars, pvars, svars, cvars, hvars>>
    /\ LET out == tryScript[tryCalls + 1].extract
       IN  /\ tryCalls' = tryCalls + 1
           /\ CASE out = "fail" ->
                       /\ tryPc' = "scrape"
                       /\ UNCHANGED <<tryI, tryOut>>
                [] out = "throws" -> TryNextRound
                [] OTHER ->
                       /\ tryOut' = [kind |-> "returns", value |-> ExtractReturn(out, TryUrl)]
                       /\ tryPc' = "done"
                       /\ UNCHANGED tryI
    /\ UNCHANGED <<tryKind, tryScript, tryScrapes>>

\* lines 476-486: app.scrapeUrl answers
TryScrape ==
    /\ tryKind = "extract" /\ tryPc = "scrape"
    /\ UNCHANGED <<fvars, pvars, svars, cvars, hvars>>
    /\ tryScrapes' = tryScrapes + 1
    /\ IF tryScript[tryCalls].scrape = "markdown"
       THEN /\ tryOut' = [kind |-> "returns",
                          value |-> << [text |-> "markdown", source |-> TryUrl] >>]
            /\ tryPc' = "done"
            /\ UNCHANGED tryI
       ELSE TryNextRound
    /\ UNCHANGED <<tryKind, tryScript, tryCalls>>

NextTry == TrySearch \/ TryExtract \/ TryScrape

-----------------------------------------------------------------------------
(* extractConstraintsWithLLM (lines 626-679) and its harness                *)

\* String.prototype.split(' ')
RECURSIVE SplitOnSpace(_, _, _)
SplitOnSpace(s, cur, acc) ==
    IF s = <<>> THEN Append(acc, cur)
    ELSE IF Head(s) = "SP" THEN SplitOnSpace(Tail(s), <<>>, Append(acc, cur))
    ELSE SplitOnSpace(Tail(s), Append(cur, Head(s)), acc)

\* the three filters of lines 666-668
KeepConstraint(c) ==
    /\ c.t = "str" /\ PhraseLength(c.v) > 2 /\ PhraseLength(c.v) < 50
    /\ \A i \in DOMAIN c.v : c.v[i] \notin ExplLabels \cup ConfLabels

\* line 677
KeyTermsFallback(question) == Take(SplitOnSpace(extractKeyTerms(question), <<>>, <<>>), 5)

\* the three parse attempts of lines 644-662 are those of lines 761-776; a
\* parsed value without filter (anything but an array) throws at line 665
extractConstraintsWithLLM(reply, question) ==
    IF reply = LlmThrows \/ SubqParsed(reply).t # "arr"
    THEN KeyTermsFallback(question)
    ELSE LET kept == Take(SelectSeq(SubqParsed(reply).v, KeepConstraint), 8)
         IN  [k \in DOMAIN kept |-> kept[k].v]

\* the lists the LLM may answer with
MaxConstraints == 2
LongPhrase ==
    <<"discovered", "SP", "discovered", "SP", "discovered", "SP", "discovered",
      "SP", "discovered">>
ConItems ==
    { JStr(SubQ1), JStr(<<"w">>), JStr(<<"in">>), JNum(5), JStr(LongPhrase),
      JStr(<<"Explanation:", "SP", "radium">>), JStr(<<"Confidence:">>),
      JStr(<<"radium">>) }
ConLists ==
    SeqsUpTo(ConItems, MaxConstraints) \cup { [k \in 1 .. 9 |-> JStr(<<"radium">>)] }

ConReplies ==
    { <<SegJson(JArr(list))>> : list \in ConLists }
    \cup { <<SegProse(<<"w">>), SegJson(JArr(list))>> : list \in SeqsUpTo(ConItems, 1) }
    \cup { <<SegJson(x)>> : x \in {JNull, JNum(5), JStr(SubQ1), JBool(TRUE),
                                   JObj(<< <<"constraints", JArr(<<JStr(SubQ1)>>)>> >>)} }
    \cup { <<SegProse(<<"w">>)>>, LlmThrows }

ConQuestions == {QuestionPlain, <<"w">>}

InitCon ==
    /\ FmtIdle /\ PrsIdle /\ SelIdle /\ TryIdle /\ HandlerIdle
    /\ conReply \in ConReplies
    /\ conQuestion \in ConQuestions
    /\ conOut = <<>>
    /\ conPc = "start"

ConCall ==
    /\ conPc = "start"
    /\ UNCHANGED <<fvars, pvars, svars, tvars, hvars>>
    /\ conOut' = extractConstraintsWithLLM(conReply, conQuestion)
    /\ conPc' = "done"
    /\ UNCHANGED <<conReply, conQuestion>>

NextCon == ConCall

vars == <<fvars, pvars, svars, tvars, cvars, hvars>>

SpecFmt == InitFmt /\ [][NextFmt]_vars

NextPrs == ParseCall

SpecPrs == InitPrs /\ [][NextPrs]_vars
SpecSel == InitSel /\ [][NextSel]_vars
SpecTry == InitTry /\ [][NextTry]_vars
SpecCon == InitCon /\ [][NextCon]_vars

Next ==
    \/ DispatchEval
    \/ EvalHopHead
    \/ EvalGenSubq
    \/ EvalSearchCall
    \/ EvalSelect
    \/ EvalConstraints
    \/ EvalExtractCall
    \/ EvalScrape
    \/ EvalAnalyze
    \/ EvalSynthConstraints
    \/ EvalSynth
    \/ DispatchNormal
    \/ ToolHopHead
    \/ ToolSearchCall
    \/ ToolExtractReturn
    \/ ToolAnalyze
    \/ ToolSynth

Spec == Init /\ [][Next]_vars

SpecWatch == InitWatch /\ [][Next]_vars

-----------------------------------------------------------------------------
(* Properties of the Formatter                                              *)

\* exactly three lines: Explanation: ..., Exact Answer: ..., Confidence: NN%
ThreeLineAnswer(s) ==
    LET lines == Lines(s)
    IN  /\ Len(lines) = 3
        /\ StartsWithExpl(lines[1])
        /\ StartsWithExact(lines[2])
        /\ ValidConfidenceLine(lines[3])

-----------------------------------------------------------------------------
(* Fair specification: every external call eventually returns or throws, so *)
(* a step of the handler that is possible is eventually taken               *)

FairSpec == Spec /\ WF_vars(Next)

-----------------------------------------------------------------------------
(* Properties                                                               *)

NoDuplicates(seq) == \A i, j \in DOMAIN seq : i # j => seq[i] # seq[j]

IsPrefix(s, t) == Len(s) <= Len(t) /\ SubSeq(t, 1, Len(s)) = s

\* urlFrequencyMap.get(url)?.frequency, 0 without an entry
FrequencyOf(map, url) ==
    IF \E k \in DOMAIN map : map[k].url = url
    THEN map[CHOOSE k \in DOMAIN map : map[k].url = url].frequency
    ELSE 0

\* C1: in eval mode the content of every response is exactly three lines:
\* "Explanation: ...", "Exact Answer: ..." and "Confidence: NN%" with NN in
\* 0..100, whatever the external calls and the synthesis LLM returned.
C1_EvalResponseThreeLines ==
    (mode = "eval" /\ pc = "done") => ThreeLineAnswer(response.content)

\* C2: every eval-mode run terminates: once the handler is entered it
\* eventually returns a response, whatever the external calls answer.
C2_EvalRunTerminates == (mode = "eval") ~> (pc = "done")

\* an eval run that used all of its hops, some of them failed, and returned
C2_Witness ==
    /\ mode = "eval" /\ pc = "done" /\ response.status = 200
    /\ researchState.currentDepth = EvalMaxDepth
    /\ researchState.failedAttempts > 0

\* C3: in both modes currentDepth <= maxDepth in every reachable state of a
\* request (so no run executes more than maxDepth hops).
C3_DepthWithinMaxDepth ==
    mode \in {"eval", "interactive"} => Halves(researchState.currentDepth) <= maxDepth

\* C4: the research loop never throws: in both modes a run that entered the
\* loop ends with the final synthesis step reached and no exception having
\* left the loop.
C4_LoopReachesSynthesis ==
    (pc = "done" /\ researchState.currentDepth > 0)
        => (hist.synthReached /\ ~hist.loopThrew)

\* C5: the Formatter is idempotent: formatting its own output again, with
\* the same question, returns that output unchanged.
C5_FormatterIdempotent == fmtPc = "twice" => fmtTwice = fmtOnce

\* C6 (as stated): for every text that direct JSON parsing accepts,
\* parseAnalysisResponse returns exactly the directly parsed value.
C6_DirectValueReturned ==
    (prsPc = "done" /\ DirectParses(prsText)) => prsOut = DirectParse(prsText)

\* C6 (amended): for every text that direct JSON parsing accepts as a value
\* other than null, parseAnalysisResponse returns the value's "analysis"
\* property when that is truthy, and otherwise the parsed value itself,
\* with the non-strings removed from "subquestions" when "summary" is
\* undefined and "subquestions" is an array.
C6_DirectOutcomeReturned ==
    (prsPc = "done" /\ DirectParses(prsText) /\ DirectParse(prsText) # JNull) =>
        LET parsed == DirectParse(prsText)
            inner == Get(parsed, "analysis")
            subs == Get(parsed, "subquestions")
        IN  IF Truthy(inner) THEN prsOut = inner
            ELSE IF Get(parsed, "summary") = JUndef /\ subs.t = "arr"
            THEN prsOut = JObj(SetKey(parsed.v, "subquestions",
                                      JArr(SelectSeqStr(subs.v))))
            ELSE prsOut = parsed

\* a directly parsed object whose "analysis" property was returned
C6_Witness ==
    /\ prsPc = "done" /\ DirectParses(prsText)
    /\ Get(DirectParse(prsText), "analysis") = InnerAnalysis
    /\ prsOut = InnerAnalysis

\* C7: in eval mode the top-unseen selection never returns a URL that is
\* already in processedUrls, and no URL is handed to the Extractor twice in
\* a request.
C7_UrlHandedOnce ==
    /\ [](mode = "eval" => NoDuplicates(hist.handed))
    /\ [][(mode = "eval" /\ pc = "select") =>
              \A k \in DOMAIN loc'.topUrls :
                  loc'.topUrls[k] \notin researchState.processedUrls]_vars

\* a second hop selected and extracted URLs after the first one did
C7_Witness ==
    /\ mode = "eval" /\ pc = "analyze"
    /\ researchState.currentDepth >= 2
    /\ Len(hist.handed) >= 3
    /\ Cardinality(researchState.processedUrls) >= 6

\* C8: for every URL u, urlFrequencyMap[u].frequency is the number of search
\* responses of the request that listed u (several listings in one response
\* count once), and u has an entry exactly when some response listed it.
C8_FrequencyCountsResponses ==
    \A url \in Urls :
        FrequencyOf(researchState.urlFrequencyMap, url) = hist.seenIn[url]

\* C9 (as stated): at the end of a run the number of findings is the number
\* of per-URL extract operations that returned a non-empty result.
C9_FindingsCountOperations ==
    pc = "done" => Len(researchState.findings) = hist.nonEmpty

\* C9 (amended): at the end of a run the number of findings is the number
\* of items the per-URL extract operations returned (an array payload gives
\* one finding per element), which is at least the number of operations
\* that returned a non-empty result.
C9_FindingsCountItems ==
    pc = "done" => /\ Len(researchState.findings) = hist.items
                   /\ hist.nonEmpty <= hist.items

\* a finished run in which an extract operation returned several items
C9_Witness ==
    /\ pc = "done"
    /\ hist.nonEmpty >= 2
    /\ hist.items > hist.nonEmpty
    /\ Len(researchState.findings) = hist.items

\* C10: in both modes findings and subAnswers are append-only: in every
\* step the previous value is a prefix of the next one.
C10_AppendOnly ==
    [][/\ IsPrefix(researchState.findings, researchState'.findings)
       /\ IsPrefix(researchState.subAnswers, researchState'.subAnswers)]_vars

\* findings and sub-answers of two hops
C10_Witness ==
    /\ researchState.currentDepth >= 2
    /\ Len(researchState.findings) >= 4
    /\ Len(researchState.subAnswers) >= 2

\* the stop conditions of lines 897-916 for the analysis a hop obtained and
\* the number of findings gathered
StopConditionHolds(analysis, nFindings) ==
    /\ Truthy(analysis)
    /\ \/ /\ Truthy(Get(analysis, "hasAnswer"))
          /\ Get(analysis, "confidence") = JStr(<<"high">>) /\ nFindings >= 3
       \/ /\ Truthy(Get(analysis, "hasAnswer"))
          /\ Get(analysis, "confidence") = JStr(<<"medium">>) /\ nFindings >= 6
       \/ nFindings >= 8
       \/ ~Truthy(Get(analysis, "shouldContinue"))

\* C11: in eval mode, after a hop that reached analysis, the next step is
\* the synthesis and no further hop starts if a stop condition holds
\* (hasAnswer with high confidence and 3 findings, hasAnswer with medium
\* confidence and 6 findings, 8 findings, or shouldContinue false);
\* if none holds and currentDepth < maxDepth, the loop goes on to another hop.
C11_StopRule ==
    [][(mode = "eval" /\ pc = "analyze") =>
          LET stop == StopConditionHolds(hist'.analysis, Len(researchState'.findings))
          IN  /\ stop => pc' = "synthConstraints"
              /\ (~stop /\ LoopRuns(researchState.currentDepth, maxDepth)) => pc' = "hopHead"]_vars

\* C12: in every reachable state 0 <= failedAttempts <= maxFailedAttempts;
\* failedAttempts never decreases within a request; and in the step in which
\* it reaches maxFailedAttempts the run goes to the synthesis, after which no
\* hop starts and the findings stay as they are.
C12_FailedAttemptsBounded ==
    /\ [](/\ 0 <= researchState.failedAttempts
          /\ researchState.failedAttempts <= researchState.maxFailedAttempts
          /\ researchState.maxFailedAttempts = MaxFailedAttempts)
    /\ [][researchState'.failedAttempts >= researchState.failedAttempts]_vars
    /\ [][(/\ researchState.failedAttempts < researchState.maxFailedAttempts
           /\ researchState'.failedAttempts = researchState'.maxFailedAttempts)
          => pc' \in {"synthConstraints", "synth"}]_vars
    /\ [][researchState.failedAttempts = researchState.maxFailedAttempts
          => /\ researchState'.currentDepth = researchState.currentDepth
             /\ researchState'.findings = researchState.findings]_vars

\* a run that gave up after three failed hops and answered from the findings
\* of an earlier hop
C12_Witness ==
    /\ pc = "done"
    /\ researchState.failedAttempts = researchState.maxFailedAttempts
    /\ hist.synthReached
    /\ LoopRuns(researchState.currentDepth, maxDepth)
    /\ Len(researchState.findings) > 0

\* C13: the time limit is enforced at hop entry: when the limit has elapsed
\* at the head of a hop, currentDepth is not incremented, no search, extract
\* or analysis call follows, and the run goes on to the synthesis; with the
\* limit elapsed at the first head, zero hops run and the synthesis works on
\* empty findings.
C13_TimeLimitAtHopEntry ==
    /\ [][(pc = "hopHead" /\ hist'.timeUp)
          => /\ researchState'.currentDepth = researchState.currentDepth
             /\ pc' \in {"synthConstraints", "synth"}]_vars
    /\ [](hist.timeUp => pc \in {"synthConstraints", "synth", "done"})
    /\ [][hist.timeUp
          => /\ researchState'.currentDepth = researchState.currentDepth
             /\ researchState'.findings = researchState.findings
             /\ hist'.handed = hist.handed
             /\ hist'.seenIn = hist.seenIn]_vars
    /\ []((hist.timeUp /\ pc = "done") => hist.synthReached)

\* an eval run whose first hop head found the limit elapsed: no hop, no
\* findings, and the synthesis answered
C13_Witness ==
    /\ mode = "eval" /\ pc = "done"
    /\ hist.timeUp /\ hist.synthReached
    /\ researchState.currentDepth = 0
    /\ researchState.findings = <<>>
    /\ response.status = 200

\* every search response so far listed URLs, and only URLs that filterUrls
\* drops because of their host
BlockedOnly ==
    /\ \E url \in Urls : hist.seenIn[url] > 0
    /\ \A url \in Urls : hist.seenIn[url] > 0 => url \in {UrlReddit, UrlYoutube, UrlFacebook, UrlTiktok}

\* C14: in eval mode, when every search returns only URLs on blocked hosts,
\* each hop whose URLs are all filtered away increments failedAttempts, and
\* the loop exits after 3 hops with zero findings and failedAttempts = 3.
C14_BlockedHopsFail ==
    /\ [][(mode = "eval" /\ pc = "analyze" /\ filterUrls(loc.topUrls) = <<>>)
          => researchState'.failedAttempts = researchState.failedAttempts + 1]_vars
    /\ []((mode = "eval" /\ pc = "done" /\ BlockedOnly /\ ~hist.timeUp /\ ~hist.loopThrew)
          => /\ researchState.failedAttempts = researchState.maxFailedAttempts
             /\ researchState.currentDepth = 3
             /\ researchState.findings = <<>>)

\* the place of url in the map's insertion order (the order of first sight)
FirstSeenAt(map, url) == CHOOSE k \in DOMAIN map : map[k].url = url

\* C15: the top-unseen selection returns at most 3 URLs, none of them in
\* processedUrls, ordered by frequency descending with ties in first-seen
\* order; every unprocessed URL it omits has a frequency <= that of every
\* URL it returns; for the responses [A,B,C] then [B,C,D] with nothing
\* processed it returns [B, C, A].
C15_TopUnseenSelection ==
    selPc = "done" =>
        /\ Len(selOut) <= 3
        /\ \A k \in DOMAIN selOut : selOut[k] \notin selProcessed
        /\ \A i, j \in DOMAIN selOut : i < j =>
               \/ FrequencyOf(selMap, selOut[i]) > FrequencyOf(selMap, selOut[j])
               \/ /\ FrequencyOf(selMap, selOut[i]) = FrequencyOf(selMap, selOut[j])
                  /\ FirstSeenAt(selMap, selOut[i]) < FirstSeenAt(selMap, selOut[j])
        /\ \A k \in DOMAIN selMap :
               (selMap[k].url \notin selProcessed
                /\ \A i \in DOMAIN selOut : selOut[i] # selMap[k].url)
               => \A i \in DOMAIN selOut :
                      selMap[k].frequency <= FrequencyOf(selMap, selOut[i])
        /\ (selSeen = << <<UrlA, UrlB, UrlC>>, <<UrlB, UrlC, UrlNetflix>> >>
            /\ selProcessed = {})
           => selOut = <<UrlB, UrlC, UrlA>>

\* the selection after the responses [A,B,C] and [B,C,D], nothing processed
C15_Witness ==
    /\ selPc = "done"
    /\ selSeen = << <<UrlA, UrlB, UrlC>>, <<UrlB, UrlC, UrlNetflix>> >>
    /\ selProcessed = {}
    /\ selOut = <<UrlB, UrlC, UrlA>>

\* the number of whitespace-separated tokens of a string
WhitespaceTokens(q) ==
    Cardinality({k \in DOMAIN q : ~IsSpace(q[k]) /\ (k = 1 \/ IsSpace(q[k - 1]))})

\* a generic suggestion: a bare interrogative, fewer than 3 whitespace
\* tokens, or all digits
GenericSuggestion(x) ==
    /\ x.t = "str" /\ x.v # <<>>
    /\ \/ Len(Trim(x.v)) = 1 /\ Trim(x.v)[1] \in Interrogatives
       \/ WhitespaceTokens(x.v) < 3
       \/ \A k \in DOMAIN x.v : x.v[k] \in Digits \cup YearTokens

\* C16: in eval mode, whenever the analyzer's nextSearchTopic is generic,
\* the search topic of the next hop is a subquestion or a fallback query and
\* never that generic suggestion itself.
C16_GenericSuggestionOverridden ==
    (mode = "eval" /\ pc = "search" /\ researchState.currentDepth > 1
     /\ GenericSuggestion(researchState.nextSearchTopic))
    => loc.searchTopic # researchState.nextSearchTopic

\* C17: every request whose User-Agent contains "python-requests" is handled
\* in eval mode and answered with HTTP 200 and a three-line answer as the
\* content, never with a stream or another status, whatever the request body
\* holds (an empty messages list included) and also when the handler fails.
C17_PythonRequestsAnswered ==
    (IsSimpleEval(userAgent) /\ pc = "done")
    => /\ mode = "eval"
       /\ response.status = 200
       /\ ThreeLineAnswer(response.content)
       /\ stream = <<>>

\* C18: every interactive research run ends its event stream with a finish
\* event: exactly one finish event is written, it carries the final synthesis
\* text, and no progress event follows it.
C18_StreamEndsWithFinish ==
    (mode = "interactive" /\ pc = "done" /\ stream # <<>>)
    => /\ stream[Len(stream)].type = "finish"
       /\ stream[Len(stream)].data = "text"
       /\ Cardinality({k \in DOMAIN stream : stream[k].type = "finish"}) = 1

\* C19: in both modes at most 3 URLs are passed to extraction in any
\* single hop.
C19_AtMostThreeUrlsPerHop ==
    (pc = "extract") => Len(loc.urls) <= 3

\* C20: in eval mode, whenever new subquestions are enqueued (by the
\* analysis step or by the subquestion-generation step), no string is both
\* in the subquestions queue and in answeredSubquestions.
C20_QueueDisjointFromAnswered ==
    [][(/\ mode = "eval"
        /\ researchState'.subquestions # researchState.subquestions
        /\ \/ researchState.subquestions = <<>>
           \/ researchState'.subquestions # Tail(researchState.subquestions))
       => \A k \in DOMAIN researchState'.subquestions :
          \A j \in DOMAIN researchState'.answeredSubquestions :
              researchState'.subquestions[k] # researchState'.answeredSubquestions[j]]_vars

\* the fields of an AnalysisResult the orchestrator reads are all defined:
\* summary and hasAnswer present, confidence one of low/medium/high, gaps a
\* list and shouldContinue a boolean
FieldsDefined(analysis) ==
    /\ analysis.t = "obj"
    /\ Get(analysis, "summary") # JUndef
    /\ Get(analysis, "hasAnswer") # JUndef
    /\ Get(analysis, "confidence") \in {JStr(<<"low">>), JStr(<<"medium">>), JStr(<<"high">>)}
    /\ Get(analysis, "gaps").t = "arr"
    /\ Get(analysis, "shouldContinue").t = "bool"

\* C21: for every response text of the reasoning LLM, the AnalysisResult
\* that parseAnalysisResponse returns has summary, hasAnswer, confidence
\* (low, medium or high), gaps (a list) and shouldContinue (a boolean)
\* defined: absent fields are replaced by defaults.
C21_AnalysisFieldsDefined == prsPc = "done" => FieldsDefined(prsOut)

\* C22: in both modes, when a search query has failed after all its retries
\* during a hop, failedAttempts is incremented in that hop: in eval mode by
\* the step that ends the hop (the only steps that change failedAttempts),
\* in interactive mode by the step in which searchWithRetry gives up.
C22_SearchFailureCounted ==
    /\ [][(mode = "eval" /\ hist.exhausted /\ ~hist'.exhausted) =>
              researchState'.failedAttempts = researchState.failedAttempts + 1]_vars
    /\ [][(mode = "interactive" /\ ~hist.exhausted /\ hist'.exhausted) =>
              researchState'.failedAttempts = researchState.failedAttempts + 1]_vars

\* the answers consumed so far are all failed attempts
AllFailed(n) == \A k \in 1 .. n : tryScript[k].kind \in {"fail", "throws"}

\* C23: searchWithRetry calls app.search at most 4 times per query; it
\* returns at the first successful response, also when that response lists
\* no result; and it throws only after 4 consecutive failed attempts
\* (success: false or an exception).
C23_SearchRetryBound ==
    tryKind = "search" =>
        /\ tryCalls <= SearchRetries + 1
        /\ AllFailed(tryCalls - 1)
        /\ (tryCalls > 0 /\ tryScript[tryCalls].kind = "ok") =>
               (tryPc = "done" /\ tryOut = [kind |-> "returns", value |-> tryScript[tryCalls].data])
        /\ tryOut.kind = "throws" => (tryCalls = 4 /\ AllFailed(4))
        /\ (tryPc = "done" /\ AllFailed(tryCalls)) => tryOut.kind = "throws"
        /\ (tryPc = "call" /\ tryCalls > 0) => (AllFailed(tryCalls) /\ tryCalls < 4)

\* three failed attempts, then a successful response with no result: the
\* query returned it after four calls
C23_Witness ==
    /\ tryKind = "search" /\ tryPc = "done" /\ tryCalls = 4
    /\ tryScript[4] = [kind |-> "ok", data |-> <<>>]
    /\ tryScript[1].kind = "fail" /\ tryScript[2].kind = "throws"
    /\ tryOut = [kind |-> "returns", value |-> <<>>]

\* the round of extractWithRetry answered last failed: an exception or the
\* timeout, or success: false with no markdown from the scrape fallback
RoundFailed(round) ==
    \/ round.extract = "throws"
    \/ round.extract = "fail" /\ round.scrape # "markdown"

\* C24: extractWithRetry never throws and calls app.extract at most 3 times
\* per URL (one attempt plus up to 2 retries); a retry happens only after an
\* exception or timeout; and it returns the empty list when the final
\* attempt has failed.
C24_ExtractRetryBound ==
    /\ [](tryKind = "extract" =>
              /\ tryOut.kind # "throws"
              /\ tryCalls <= ExtractRetries + 1
              /\ (tryPc = "done" /\ RoundFailed(tryScript[tryCalls])) =>
                     (tryCalls = ExtractRetries + 1 /\ tryOut.value = <<>>))
    /\ [][(tryKind = "extract" /\ tryI' = tryI + 1) =>
              tryScript[tryCalls'].extract = "throws"]_vars

\* C25: when the extract call for a URL succeeds but returns an empty or
\* sentinel payload (an empty list, or a payload whose serialization
\* contains "names":[]), extractWithRetry invokes the scrape fallback for
\* that URL and, if the scrape succeeds, returns one finding whose text is
\* the start of the page markdown.
C25_EmptyPayloadScraped ==
    (tryKind = "extract" /\ tryPc = "done" /\ tryScript[tryCalls].extract \in EmptyAnswers) =>
        /\ tryScrapes = Cardinality({k \in 1 .. tryCalls :
                                        tryScript[k].extract \in EmptyAnswers \cup {"fail"}})
        /\ tryScript[tryCalls].scrape = "markdown" =>
               tryOut = [kind |-> "returns",
                         value |-> << [text |-> "markdown", source |-> TryUrl] >>]

\* C26: eval-mode topic selection.  On hop 1 the search topic is the
\* original question; on a later hop with a non-empty subquestions queue the
\* topic is the oldest queued subquestion, which is removed from the queue;
\* and in any hop where failedAttempts >= 2 and findings is empty the topic
\* is overridden with generateFallbackQuery(question).
C26_TopicSelection ==
    [][(mode = "eval" /\ pc \in {"hopHead", "genSubq"} /\ pc' = "search") =>
          LET override == /\ researchState.failedAttempts >= 2
                          /\ researchState.findings = <<>>
              queue == researchState.subquestions
          IN  /\ override =>
                     loc'.searchTopic = JStr(generateFallbackQuery(lastUserMessage))
              /\ (pc = "hopHead" /\ researchState'.currentDepth = 1 /\ ~override) =>
                     loc'.searchTopic = JStr(lastUserMessage)
              /\ (pc = "hopHead" /\ researchState'.currentDepth > 1 /\ queue # <<>>) =>
                     /\ researchState'.subquestions = Tail(queue)
                     /\ ~override => loc'.searchTopic = Head(queue)]_vars

\* the third hop of a run whose first two hops failed: the queued
\* subquestion was dequeued and the topic is the keyword fallback
C26_Witness ==
    /\ mode = "eval" /\ pc = "search" /\ loc.q = 0 /\ loc.i = 0
    /\ researchState.currentDepth = 3
    /\ researchState.failedAttempts = 2 /\ researchState.findings = <<>>
    /\ researchState.answeredSubquestions = <<JStr(SubQ2)>>
    /\ researchState.subquestions = <<>>
    /\ loc.searchTopic = JStr(generateFallbackQuery(lastUserMessage))
    /\ loc.searchTopic # JStr(SubQ2)

\* C27: in eval mode, after any sequence of hops, every subquestion that
\* has been removed from the subquestions queue is in answeredSubquestions,
\* whichever branch dequeued it (the plain dequeue or generate-then-dequeue).
C27_DequeuedAreAnswered ==
    mode = "eval" =>
        \A q \in hist.dequeued :
            \E j \in DOMAIN researchState.answeredSubquestions :
                researchState.answeredSubquestions[j] = q

\* the reply is no array of strings: the call threw, no array could be
\* parsed from the text, the parsed value is no array, or an element of the
\* array is no string
NoStringArray(reply) ==
    \/ reply = LlmThrows
    \/ ~DirectParses(reply) /\ ~\E k \in DOMAIN reply : reply[k].k = "json" /\ reply[k].v.t = "arr"
    \/ SubqParsed(reply).t # "arr"
    \/ \E k \in DOMAIN SubqParsed(reply).v : SubqParsed(reply).v[k].t # "str"

\* C28: the Constraint Extractor returns at most 8 constraints, and on any
\* failure (the LLM call throws, or its response cannot be parsed into an
\* array of strings) it returns the first 5 whitespace-separated terms of
\* extractKeyTerms(question) instead of an empty or partial list.
C28_ConstraintsOrFallback ==
    conPc = "done" =>
        /\ Len(conOut) <= 8
        /\ NoStringArray(conReply) => conOut = KeyTermsFallback(conQuestion)

\* the positions of the depth-delta events in the stream
DepthDeltas == {k \in DOMAIN stream : stream[k].type = "depth-delta"}

\* C29: in interactive mode the first event written by a research run is
\* progress-init with totalSteps = maxDepth * 5; every hop writes one
\* depth-delta before any activity-delta of that hop; and the 'current'
\* values of successive depth-delta events are 1, 2, 3, ..., increasing by
\* exactly 1 and never exceeding max.
C29_DepthEvents ==
    (mode = "interactive" /\ stream # <<>>) =>
        /\ stream[1].type = "progress-init"
        /\ stream[1].max = maxDepth
        /\ stream[1].totalSteps = maxDepth * 5
        /\ \A k \in DOMAIN stream :
               (stream[k].type = "activity-delta" /\ stream[k].depth >= 1) =>
                   \E j \in DepthDeltas : j < k /\ stream[j].depth = stream[k].depth
        /\ \A k \in DepthDeltas :
               /\ stream[k].depth = Cardinality({j \in DepthDeltas : j <= k})
               /\ stream[k].max = maxDepth
               /\ Halves(stream[k].depth) <= stream[k].max

\* the activities with status 'complete' among the first k events
CompletedBy(k) ==
    Cardinality({j \in 1 .. k : stream[j].type = "activity-delta"
                                   /\ stream[j].status = "complete"})

\* C30: in interactive mode completedSteps changes only when an activity
\* with status 'complete' is emitted, and then by exactly 1; an activity
\* with status 'pending' or 'error', a depth-delta, a source-delta or a
\* finish event leaves it unchanged; and the completedSteps value carried by
\* successive events never decreases.  So completedSteps, and the value
\* each event carries, is the number of 'complete' activities so far.
C30_CompletedStepsCount ==
    mode = "interactive" =>
        /\ researchState.completedSteps = CompletedBy(Len(stream))
        /\ \A k \in DOMAIN stream : stream[k].completedSteps = CompletedBy(k)
        /\ \A k \in DOMAIN stream :
               k > 1 => stream[k].completedSteps >= stream[k - 1].completedSteps

\* a successful run whose stream holds a failed analysis, later completed
\* activities, a depth-delta and source-delta events
C30_Witness ==
    /\ mode = "interactive" /\ pc = "done" /\ toolResult = "success"
    /\ researchState.completedSteps >= 3
    /\ \E k, j \in DOMAIN stream :
           /\ k < j
           /\ stream[k].type = "activity-delta" /\ stream[k].status = "error"
           /\ stream[j].type = "depth-delta"
    /\ \E k \in DOMAIN stream : stream[k].type = "source-delta"
    /\ stream[Len(stream)].type = "finish"

\* C31: in interactive mode, whatever the order in which the concurrent
\* per-URL extractions of a hop settle, the analysis of the hop is issued
\* only when none of them is pending any more (each has succeeded or
\* failed), and findings changes only once per hop, in the step of the join,
\* after which it holds every item the extractions returned.
C31_AnalysisAfterJoin ==
    /\ []((mode = "interactive" /\ pc = "analyze") => loc.pending = {})
    /\ [][(mode = "interactive" /\ researchState'.findings # researchState.findings)
          => (pc = "extract" /\ pc' = "analyze" /\ loc'.pending = {})]_vars
    /\ [][(mode = "interactive" /\ pc = "extract" /\ pc' = "analyze")
          => Len(researchState'.findings) = hist'.items]_vars

\* the analysis of a hop is about to be issued after three extractions, of
\* which a later one settled before an earlier one and one yielded nothing
C31_Witness ==
    /\ mode = "interactive" /\ pc = "analyze"
    /\ hist.overtook
    /\ Len(hist.handed) = 3
    /\ hist.nonEmpty = 2
    /\ Len(researchState.findings) = 3

\* C32: ResearchState is read and written by the orchestrator only: a step
\* in which one of the per-URL extractions of an interactive hop settles
\* while others are still in flight leaves every field of researchState
\* (currentDepth and completedSteps included) as it was.
C32_ExtractionsLeaveState ==
    [][(mode = "interactive" /\ pc = "extract" /\ pc' = "extract")
          => researchState' = researchState]_vars

\* C33: in interactive mode, when an exception has left the loop or the
\* synthesis call (the tool returned success: false), the last event of the
\* stream is an activity-delta of type 'thought' with status 'error', the
\* stream holds no finish event, the 'thought' activity did not count as a
\* completed step, and the findings returned are all the findings gathered;
\* a finished run ends with a finish event exactly when the tool succeeded.
C33_FailureEndsWithThought ==
    /\ (mode = "interactive" /\ toolResult = "failure") =>
           /\ pc = "done"
           /\ stream[Len(stream)].type = "activity-delta"
           /\ stream[Len(stream)].kind = "thought"
           /\ stream[Len(stream)].status = "error"
           /\ \A k \in DOMAIN stream : stream[k].type # "finish"
           /\ stream[Len(stream)].completedSteps = CompletedBy(Len(stream) - 1)
           /\ researchState.completedSteps = CompletedBy(Len(stream) - 1)
           /\ Len(researchState.findings) = hist.items
    /\ (mode = "interactive" /\ pc = "done" /\ stream # <<>>) =>
           /\ toolResult \in {"success", "failure"}
           /\ toolResult = "success" <=> stream[Len(stream)].type = "finish"

\* the synthesis call threw after two hops that gathered findings
C33_Witness ==
    /\ mode = "interactive" /\ pc = "done" /\ toolResult = "failure"
    /\ ~hist.loopThrew
    /\ researchState.currentDepth = 2
    /\ Len(researchState.findings) >= 3
    /\ researchState.completedSteps >= 4

\* the three stop rules on the analysis and the number of findings
FindingsStopRule(analysis, nFindings) ==
    \/ /\ Truthy(Get(analysis, "hasAnswer"))
       /\ Get(analysis, "confidence") = JStr(<<"high">>) /\ nFindings >= 3
    \/ /\ Truthy(Get(analysis, "hasAnswer"))
       /\ Get(analysis, "confidence") = JStr(<<"medium">>) /\ nFindings >= 6
    \/ nFindings >= 8

\* C34: the stop rules apply in interactive mode as well: after an
\* interactive hop whose analysis has hasAnswer and confidence 'high' with
\* at least 3 findings (or hasAnswer and 'medium' with at least 6, or at
\* least 8 findings), the run is at the synthesis or at the head of the
\* loop, and from the head its next step is the synthesis: no further hop
\* starts.
C34_StopRulesInteractive ==
    /\ []((mode = "interactive" /\ hist.analysis # JUndef
             /\ FindingsStopRule(hist.analysis, Len(researchState.findings)))
          => pc \in {"synth", "hopHead"})
    /\ [][(mode = "interactive" /\ hist.analysis # JUndef /\ pc = "hopHead"
             /\ FindingsStopRule(hist.analysis, Len(researchState.findings)))
          => (pc' = "synth" /\ researchState'.currentDepth = researchState.currentDepth)]_vars

\* a line of the text starts with the exact-answer label, in either case
HasExactAnswerLine(text) ==
    \E i \in DOMAIN TrimmedLines(text) : StartsWithExact(TrimmedLines(text)[i])

\* C35: in eval mode, whenever the Formatter's output for the synthesis
\* text is a well-formed three-line answer that the Formatter itself accepts
\* (labels matched case-insensitively), the response content is exactly that
\* output; the hard fallback 'Exact Answer: Unknown / Confidence: 0%'
\* replaces it only when the output has no exact-answer line.
C35_FormattedOutputReturned ==
    (mode = "eval" /\ pc = "done" /\ hist.formatted # <<>>) =>
        /\ AlreadyValid(hist.formatted) => response.content = hist.formatted
        /\ response.content # hist.formatted =>
               /\ response.content = HardFallback
               /\ ~HasExactAnswerLine(hist.formatted)

\* C36: in interactive mode completedSteps <= totalExpectedSteps
\* (= maxDepth * 5) in every reachable state and in every event written,
\* whatever the number of search results, extracted URLs and hops
\* (totalExpectedSteps is kept in halves, as maxDepth is).
C36_CompletedWithinTotal ==
    mode = "interactive" =>
        /\ researchState.totalExpectedSteps = maxDepth * 5
        /\ Halves(researchState.completedSteps) <= researchState.totalExpectedSteps
        /\ \A k \in DOMAIN stream :
               Halves(stream[k].completedSteps) <= stream[k].totalSteps

\* C37: in eval mode, every subquestion placed in answeredSubquestions is
\* the search topic of the hop that dequeued it: in the step that appends
\* it, the hop's searches are set out with that subquestion as their query.
C37_AnsweredWereSearched ==
    [][(mode = "eval"
          /\ Len(researchState'.answeredSubquestions) > Len(researchState.answeredSubquestions))
       => (/\ pc' = "search"
           /\ loc'.searchTopic =
                  researchState'.answeredSubquestions[Len(researchState'.answeredSubquestions)])]_vars

\* the sources of the findings are those of the URL list, in its order
RECURSIVE InListOrder(_, _)
InListOrder(sources, urls) ==
    IF sources = <<>> THEN TRUE
    ELSE IF urls = <<>> THEN FALSE
    ELSE IF Head(sources) = Head(urls) THEN InListOrder(Tail(sources), urls)
    ELSE InListOrder(sources, Tail(urls))

\* C38: in interactive mode the findings a hop appends are in the order of
\* the hop's URL list (the suggested URL first, then the search results in
\* rank order), whatever the order in which the concurrent extractions
\* settle: the step of the join appends to findings a sequence whose
\* sources follow the order of the URLs handed to the extractions.
C38_FindingsInListOrder ==
    [][(mode = "interactive" /\ pc = "extract" /\ pc' = "analyze") =>
          /\ IsPrefix(researchState.findings, researchState'.findings)
          /\ LET new == SubSeq(researchState'.findings, Len(researchState.findings) + 1,
                               Len(researchState'.findings))
             IN  InListOrder([i \in DOMAIN new |-> new[i].source], loc.urls)]_vars

\* the second hop of a run has joined: the suggested URL came first in its
\* list, a later extraction settled before an earlier one, and the findings
\* of the two hops are in list order
C38_Witness ==
    /\ mode = "interactive" /\ pc = "analyze"
    /\ hist.overtook
    /\ researchState.currentDepth = 2
    /\ [i \in DOMAIN researchState.findings |-> researchState.findings[i].source]
           = <<UrlA, UrlA, UrlB, UrlB, UrlA, UrlA, UrlB>>
====
